---- MODULE Spec2Model ----
(***************************************************************************)
(* Query understanding and hybrid retrieval of the McGill course crafter   *)
(* (src/backend/rag_layer.py, src/deterministic_logic.py).                 *)
(*                                                                         *)
(* Strings are sequences of one-character strings, so that the regular     *)
(* expressions and substring tests of the code are computed character by   *)
(* character, as Python computes them.                                     *)
(***************************************************************************)
EXTENDS Integers, Sequences, FiniteSets, TLC

\* ------------------------------------------------------------------------
\* Characters and strings
\* ------------------------------------------------------------------------

LowerSeq == <<"a","b","c","d","e","f","g","h","i","j","k","l","m",
              "n","o","p","q","r","s","t","u","v","w","x","y","z">>
UpperSeq == <<"A","B","C","D","E","F","G","H","I","J","K","L","M",
              "N","O","P","Q","R","S","T","U","V","W","X","Y","Z">>
DigitSeq == <<"0","1","2","3","4","5","6","7","8","9">>

Range(f) == {f[i] : i \in DOMAIN f}

LowerSet == Range(LowerSeq)
UpperSet == Range(UpperSeq)
DigitSet == Range(DigitSeq)
LetterSet == LowerSet \cup UpperSet
\* \w of Python's re on the characters used here
WordSet == LetterSet \cup DigitSet \cup {"_"}
\* \s
SpaceSet == {" "}

IndexIn(seq, c) == CHOOSE i \in DOMAIN seq : seq[i] = c

\* str.upper() / str.lower() on one character
UpperChar(c) == IF c \in LowerSet THEN UpperSeq[IndexIn(LowerSeq, c)] ELSE c
LowerChar(c) == IF c \in UpperSet THEN LowerSeq[IndexIn(UpperSeq, c)] ELSE c

Upper(s) == [i \in DOMAIN s |-> UpperChar(s[i])]
Lower(s) == [i \in DOMAIN s |-> LowerChar(s[i])]

\* s[i:j] of Python with 1-based i and exclusive j: the characters i .. j-1
Slice(s, i, j) == IF j <= i THEN <<>> ELSE SubSeq(s, i, j - 1)

\* whether t occurs in s starting at position i
OccursAt(s, t, i) ==
    /\ i >= 1
    /\ i + Len(t) - 1 <= Len(s)
    /\ \A k \in 1..Len(t) : s[i + k - 1] = t[k]

\* `t in s` of Python
Contains(s, t) == \E i \in 1..(Len(s) - Len(t) + 1) : OccursAt(s, t, i)

\* str.startswith
StartsWith(s, t) == OccursAt(s, t, 1)

\* str.strip(): whitespace removed from both ends
RECURSIVE LStrip(_)
LStrip(s) == IF s # <<>> /\ Head(s) \in SpaceSet THEN LStrip(Tail(s)) ELSE s
RECURSIVE RStripSet(_, _)
RStripSet(s, cs) ==
    IF s # <<>> /\ s[Len(s)] \in cs THEN RStripSet(SubSeq(s, 1, Len(s) - 1), cs) ELSE s
Strip(s) == RStripSet(LStrip(s), SpaceSet)

\* \b of Python's re at position i (between s[i-1] and s[i])
IsWordAt(s, i) == i >= 1 /\ i <= Len(s) /\ s[i] \in WordSet
Boundary(s, i) == IsWordAt(s, i - 1) # IsWordAt(s, i)

\* ------------------------------------------------------------------------
\* Regular expressions: the patterns of the code as syntax trees, and the
\* set of positions at which a match starting at i can end.
\* ------------------------------------------------------------------------

Lit(t)   == [t |-> "lit", s |-> t]
Cls(cs)  == [t |-> "cls", cs |-> cs]
Cat(rs)  == [t |-> "cat", rs |-> rs]
Alt(rs)  == [t |-> "alt", rs |-> rs]
Opt(r)   == [t |-> "opt", r |-> r]
Star(r)  == [t |-> "star", r |-> r]
Plus(r)  == [t |-> "plus", r |-> r]
WB       == [t |-> "wb"]
EOS      == [t |-> "eos"]
Dot      == [t |-> "dot"]

RECURSIVE Ends(_, _, _)
RECURSIVE CatEnds(_, _, _, _)
RECURSIVE StarEnds(_, _, _, _)

\* the end positions (index of the next unread character) of matches of r in s from i
Ends(r, s, i) ==
    CASE r.t = "lit"  -> IF OccursAt(s, r.s, i) THEN {i + Len(r.s)} ELSE {}
      [] r.t = "cls"  -> IF i <= Len(s) /\ s[i] \in r.cs THEN {i + 1} ELSE {}
      [] r.t = "dot"  -> IF i <= Len(s) THEN {i + 1} ELSE {}
      [] r.t = "wb"   -> IF Boundary(s, i) THEN {i} ELSE {}
      [] r.t = "eos"  -> IF i = Len(s) + 1 THEN {i} ELSE {}
      [] r.t = "opt"  -> {i} \cup Ends(r.r, s, i)
      [] r.t = "alt"  -> UNION {Ends(r.rs[k], s, i) : k \in DOMAIN r.rs}
      [] r.t = "cat"  -> CatEnds(r.rs, 1, s, {i})
      [] r.t = "star" -> StarEnds(r.r, s, {i}, {i})
      [] r.t = "plus" -> LET first == Ends(r.r, s, i) IN StarEnds(r.r, s, first, first)

CatEnds(rs, k, s, from) ==
    IF k > Len(rs) \/ from = {} THEN from
    ELSE CatEnds(rs, k + 1, s, UNION {Ends(rs[k], s, i) : i \in from})

\* closure of `seen` under one more match of r, `frontier` being the new positions
StarEnds(r, s, seen, frontier) ==
    LET next == UNION {Ends(r, s, i) : i \in frontier} \ seen
    IN  IF next = {} THEN seen ELSE StarEnds(r, s, seen \cup next, next)

\* the start positions of the matches of r in s
MatchStarts(r, s) == {i \in 1..(Len(s) + 1) : Ends(r, s, i) # {}}

\* re.search(r, s) is not None
Search(r, s) == \E i \in 1..(Len(s) + 1) : Ends(r, s, i) # {}

Min(S) == CHOOSE x \in S : \A y \in S : x <= y
Max(S) == CHOOSE x \in S : \A y \in S : x >= y

\* ------------------------------------------------------------------------
\* Course codes
\* ------------------------------------------------------------------------

\* _DEPT_FALSE_POSITIVES: English words of the shape of a department code
\* (WHAT, THAT, HAVE, THIS, ... DONE, in the order of the source)
DEPT_FALSE_POSITIVES == {
    <<"W","H","A","T">>, <<"T","H","A","T">>, <<"H","A","V","E">>, <<"T","H","I","S">>,
    <<"W","H","E","N">>, <<"T","H","E","N">>, <<"W","I","T","H">>, <<"F","R","O","M">>,
    <<"T","A","K","E">>, <<"G","I","V","E">>, <<"F","I","N","D">>, <<"L","I","S","T">>,
    <<"S","H","O","W">>, <<"N","E","E","D">>, <<"W","A","N","T">>, <<"L","I","K","E">>,
    <<"D","O","E","S">>, <<"E","A","C","H">>, <<"M","A","N","Y">>, <<"M","O","R","E">>,
    <<"M","U","C","H">>, <<"M","O","S","T">>, <<"N","E","X","T">>, <<"S","O","M","E">>,
    <<"S","U","C","H">>, <<"V","E","R","Y">>, <<"W","E","L","L">>, <<"W","I","L","L">>,
    <<"T","H","E","Y">>, <<"T","H","E","M">>, <<"Y","O","U","R">>, <<"Y","E","A","R">>,
    <<"A","L","S","O">>, <<"I","N","T","O">>, <<"O","V","E","R">>, <<"L","A","S","T">>,
    <<"L","O","N","G">>, <<"L","O","O","K">>, <<"M","A","K","E">>, <<"J","U","S","T">>,
    <<"K","N","O","W">>, <<"L","E","S","S">>, <<"M","U","S","T">>, <<"N","O","N","E">>,
    <<"O","N","L","Y">>, <<"P","L","A","N">>, <<"R","E","A","L">>, <<"S","A","M","E">>,
    <<"T","E","L","L">>, <<"T","E","S","T">>, <<"T","I","M","E">>, <<"T","R","U","E">>,
    <<"T","U","R","N">>, <<"T","Y","P","E">>, <<"W","A","I","T">>, <<"W","O","R","K">>,
    <<"O","P","E","N">>, <<"H","O","L","D">>, <<"S","T","A","Y">>, <<"S","T","O","P">>,
    <<"S","T","E","P">>, <<"B","O","T","H">>, <<"E","V","E","N">>, <<"W","E","R","E">>,
    <<"B","E","E","N">>, <<"K","E","E","P">>, <<"W","E","N","T">>, <<"B","E","S","T">>,
    <<"P","I","C","K">>, <<"S","K","I","P">>, <<"H","E","L","P">>, <<"D","O","N","E">>
}

\* One match of a course-code expression \b([A-Z]{3,4})<sep>(\d{3}[A-Z]?)\b starting
\* at i, with n letters, sp separator characters and l trailing letters. `letters` is
\* what [A-Z] matches (both cases under IGNORECASE), `seps` what the separator matches.
CodeShape(s, i, n, sp, l, letters, seps) ==
    LET d == i + n + sp
        e == d + 3 + l
    IN  /\ e - 1 <= Len(s)
        /\ Boundary(s, i)
        /\ \A k \in i..(i + n - 1) : s[k] \in letters
        /\ \A k \in (i + n)..(d - 1) : s[k] \in seps
        /\ \A k \in d..(d + 2) : s[k] \in DigitSet
        /\ l = 1 => s[d + 3] \in letters
        /\ Boundary(s, e)

\* The matches at i as records (group 1, group 2, end), the separator being at most
\* maxsep characters long.  The alternatives exclude each other (the character after
\* the letters is a letter, a separator or a digit; the digits follow the whole run of
\* separators; a boundary follows the digits or the trailing letter), so the set holds
\* at most the one match the backtracking of re finds.
CodeMatchesAt(s, i, letters, seps, maxsep) ==
    IF ~(i <= Len(s) /\ s[i] \in letters) THEN {}
    ELSE { [dept |-> Slice(s, i, i + c[1]),
            num  |-> Slice(s, i + c[1] + c[2], i + c[1] + c[2] + 3 + c[3]),
            end  |-> i + c[1] + c[2] + 3 + c[3]] :
           c \in {c \in {3, 4} \X (0..maxsep) \X {0, 1} :
                    CodeShape(s, i, c[1], c[2], c[3], letters, seps)} }

\* leftmost match first, the scan resuming where the match ended (re.findall)
RECURSIVE CodeFindAllFrom(_, _, _, _, _)
CodeFindAllFrom(s, pos, letters, seps, maxsep) ==
    LET starts == {i \in pos..Len(s) : CodeMatchesAt(s, i, letters, seps, maxsep) # {}}
    IN  IF starts = {} THEN <<>>
        ELSE LET m == CHOOSE m \in CodeMatchesAt(s, Min(starts), letters, seps, maxsep) : TRUE
             IN  <<m>> \o CodeFindAllFrom(s, m.end, letters, seps, maxsep)

\* _COURSE_ID_RE = re.compile(r'\b([A-Z]{3,4})[\s\-]?(\d{3}[A-Z]?)\b', re.IGNORECASE)
CourseIdMatchesAt(s, i) == CodeMatchesAt(s, i, LetterSet, SpaceSet \cup {"-"}, 1)

\* _COURSE_ID_RE.findall(s)
CourseIdFindAll(s) == CodeFindAllFrom(s, 1, LetterSet, SpaceSet \cup {"-"}, 1)

\* re.findall(r'\b([A-Z]{3,4})\s*(\d{3}[A-Z]?)\b', s): upper-case letters only, any
\* run of whitespace (and no hyphen) as separator
PrereqCodeFindAll(s) == CodeFindAllFrom(s, 1, UpperSet, SpaceSet, Len(s))

\* a variant that keeps the letters as written
CanonicalId_asWritten(m) == m.dept \o <<" ">> \o m.num

\* f"{dept.upper()} {num.upper()}"
CanonicalId(m) == Upper(m.dept) \o <<" ">> \o Upper(m.num)

\* the list without the elements that occurred before
RECURSIVE Dedup(_, _)
Dedup(seq, seen) ==
    IF seq = <<>> THEN <<>>
    ELSE IF Head(seq) \in seen THEN Dedup(Tail(seq), seen)
         ELSE <<Head(seq)>> \o Dedup(Tail(seq), seen \cup {Head(seq)})

\* extract_all_course_ids(query)
extract_all_course_ids(query) ==
    LET matches == CourseIdFindAll(query)
    IN  Dedup([k \in DOMAIN matches |-> CanonicalId(matches[k])], {})

\* hybrid_search: _raw_matches = _COURSE_ID_RE.findall(query.upper());
\* has_specific_course = any(dept not in _DEPT_FALSE_POSITIVES for dept, _ in _raw_matches)
has_specific_course(query) ==
    LET raw == CourseIdFindAll(Upper(query))
    IN  \E k \in DOMAIN raw : raw[k].dept \notin DEPT_FALSE_POSITIVES

\* ------------------------------------------------------------------------
\* detect_planning_query: the pattern tables, in the order of the source
\* ------------------------------------------------------------------------

\* (regular expression, department code) pairs; the first match wins
dept_patterns == <<
    \* r'\b(cs|comp(?:uter)?(?:\s+science)?)\b'
    <<Cat(<<WB, Alt(<<Lit(<<"c","s">>), Cat(<<Lit(<<"c","o","m","p">>), Opt(Lit(<<"u","t","e","r">>)), Opt(Cat(<<Plus(Cls(SpaceSet)), Lit(<<"s","c","i","e","n","c","e">>)>>))>>)>>), WB>>),
      <<"C","O","M","P">>>>,
    \* r'\b(software\s+engineering?|swe)\b'
    <<Cat(<<WB, Alt(<<Cat(<<Lit(<<"s","o","f","t","w","a","r","e">>), Plus(Cls(SpaceSet)), Lit(<<"e","n","g","i","n","e","e","r","i","n">>), Opt(Lit(<<"g">>))>>), Lit(<<"s","w","e">>)>>), WB>>),
      <<"E","C","S","E">>>>,
    \* r'\b(ecse|electrical(?:\s+engineering)?|ece)\b'
    <<Cat(<<WB, Alt(<<Lit(<<"e","c","s","e">>), Cat(<<Lit(<<"e","l","e","c","t","r","i","c","a","l">>), Opt(Cat(<<Plus(Cls(SpaceSet)), Lit(<<"e","n","g","i","n","e","e","r","i","n","g">>)>>))>>), Lit(<<"e","c","e">>)>>), WB>>),
      <<"E","C","S","E">>>>,
    \* r'\b(mech(?:anical)?(?:\s+engineering)?)\b'
    <<Cat(<<WB, Cat(<<Lit(<<"m","e","c","h">>), Opt(Lit(<<"a","n","i","c","a","l">>)), Opt(Cat(<<Plus(Cls(SpaceSet)), Lit(<<"e","n","g","i","n","e","e","r","i","n","g">>)>>))>>), WB>>),
      <<"M","E","C","H">>>>,
    \* r'\b(civil(?:\s+engineering)?|cive)\b'
    <<Cat(<<WB, Alt(<<Cat(<<Lit(<<"c","i","v","i","l">>), Opt(Cat(<<Plus(Cls(SpaceSet)), Lit(<<"e","n","g","i","n","e","e","r","i","n","g">>)>>))>>), Lit(<<"c","i","v","e">>)>>), WB>>),
      <<"C","I","V","E">>>>,
    \* r'\b(mining(?:\s+engineering)?|mimi)\b'
    <<Cat(<<WB, Alt(<<Cat(<<Lit(<<"m","i","n","i","n","g">>), Opt(Cat(<<Plus(Cls(SpaceSet)), Lit(<<"e","n","g","i","n","e","e","r","i","n","g">>)>>))>>), Lit(<<"m","i","m","i">>)>>), WB>>),
      <<"M","I","M","I">>>>,
    \* r'\b(math(?:ematics)?)\b'
    <<Cat(<<WB, Cat(<<Lit(<<"m","a","t","h">>), Opt(Lit(<<"e","m","a","t","i","c","s">>))>>), WB>>),
      <<"M","A","T","H">>>>,
    \* r'\b(phys(?:ics)?)\b'
    <<Cat(<<WB, Cat(<<Lit(<<"p","h","y","s">>), Opt(Lit(<<"i","c","s">>))>>), WB>>),
      <<"P","H","Y","S">>>>,
    \* r'\b(chem(?:istry)?)\b'
    <<Cat(<<WB, Cat(<<Lit(<<"c","h","e","m">>), Opt(Lit(<<"i","s","t","r","y">>))>>), WB>>),
      <<"C","H","E","M">>>>,
    \* r'\b(biol(?:ogy)?)\b'
    <<Cat(<<WB, Cat(<<Lit(<<"b","i","o","l">>), Opt(Lit(<<"o","g","y">>))>>), WB>>),
      <<"B","I","O","L">>>>,
    \* r'\b(biochem(?:istry)?|bioc)\b'
    <<Cat(<<WB, Alt(<<Cat(<<Lit(<<"b","i","o","c","h","e","m">>), Opt(Lit(<<"i","s","t","r","y">>))>>), Lit(<<"b","i","o","c">>)>>), WB>>),
      <<"B","I","O","C">>>>,
    \* r'\b(neurosci(?:ence)?|nrsc)\b'
    <<Cat(<<WB, Alt(<<Cat(<<Lit(<<"n","e","u","r","o","s","c","i">>), Opt(Lit(<<"e","n","c","e">>))>>), Lit(<<"n","r","s","c">>)>>), WB>>),
      <<"N","R","S","C">>>>,
    \* r'\b(microbiol(?:ogy)?|immunol(?:ogy)?|mimm)\b'
    <<Cat(<<WB, Alt(<<Cat(<<Lit(<<"m","i","c","r","o","b","i","o","l">>), Opt(Lit(<<"o","g","y">>))>>), Cat(<<Lit(<<"i","m","m","u","n","o","l">>), Opt(Lit(<<"o","g","y">>))>>), Lit(<<"m","i","m","m">>)>>), WB>>),
      <<"M","I","M","M">>>>,
    \* r'\b(anat(?:omy)?)\b'
    <<Cat(<<WB, Cat(<<Lit(<<"a","n","a","t">>), Opt(Lit(<<"o","m","y">>))>>), WB>>),
      <<"A","N","A","T">>>>,
    \* r'\b(physiol(?:ogy)?|phgy)\b'
    <<Cat(<<WB, Alt(<<Cat(<<Lit(<<"p","h","y","s","i","o","l">>), Opt(Lit(<<"o","g","y">>))>>), Lit(<<"p","h","g","y">>)>>), WB>>),
      <<"P","H","G","Y">>>>,
    \* r'\b(atmospheric|oceanograph(?:y|ic)?|atoc)\b'
    <<Cat(<<WB, Alt(<<Lit(<<"a","t","m","o","s","p","h","e","r","i","c">>), Cat(<<Lit(<<"o","c","e","a","n","o","g","r","a","p","h">>), Opt(Alt(<<Lit(<<"y">>), Lit(<<"i","c">>)>>))>>), Lit(<<"a","t","o","c">>)>>), WB>>),
      <<"A","T","O","C">>>>,
    \* r'\b(earth\s+(?:and\s+)?planetary|epsc)\b'
    <<Cat(<<WB, Alt(<<Cat(<<Lit(<<"e","a","r","t","h">>), Plus(Cls(SpaceSet)), Opt(Cat(<<Lit(<<"a","n","d">>), Plus(Cls(SpaceSet))>>)), Lit(<<"p","l","a","n","e","t","a","r","y">>)>>), Lit(<<"e","p","s","c">>)>>), WB>>),
      <<"E","P","S","C">>>>,
    \* r'\b(pharmac(?:y|ology)|phar)\b'
    <<Cat(<<WB, Alt(<<Cat(<<Lit(<<"p","h","a","r","m","a","c">>), Alt(<<Lit(<<"y">>), Lit(<<"o","l","o","g","y">>)>>)>>), Lit(<<"p","h","a","r">>)>>), WB>>),
      <<"P","H","A","R">>>>,
    \* r'\b(econ(?:omics)?)\b'
    <<Cat(<<WB, Cat(<<Lit(<<"e","c","o","n">>), Opt(Lit(<<"o","m","i","c","s">>))>>), WB>>),
      <<"E","C","O","N">>>>,
    \* r'\b(psyc(?:hology)?)\b'
    <<Cat(<<WB, Cat(<<Lit(<<"p","s","y","c">>), Opt(Lit(<<"h","o","l","o","g","y">>))>>), WB>>),
      <<"P","S","Y","C">>>>,
    \* r'\b(soci(?:ology)?)\b'
    <<Cat(<<WB, Cat(<<Lit(<<"s","o","c","i">>), Opt(Lit(<<"o","l","o","g","y">>))>>), WB>>),
      <<"S","O","C","I">>>>,
    \* r'\b(anth(?:ropology)?)\b'
    <<Cat(<<WB, Cat(<<Lit(<<"a","n","t","h">>), Opt(Lit(<<"r","o","p","o","l","o","g","y">>))>>), WB>>),
      <<"A","N","T","H">>>>,
    \* r'\b(poli(?:tical)?\s*sci(?:ence)?|political\s+science)\b'
    <<Cat(<<WB, Alt(<<Cat(<<Lit(<<"p","o","l","i">>), Opt(Lit(<<"t","i","c","a","l">>)), Star(Cls(SpaceSet)), Lit(<<"s","c","i">>), Opt(Lit(<<"e","n","c","e">>))>>), Cat(<<Lit(<<"p","o","l","i","t","i","c","a","l">>), Plus(Cls(SpaceSet)), Lit(<<"s","c","i","e","n","c","e">>)>>)>>), WB>>),
      <<"P","O","L","I">>>>,
    \* r'\b(geog(?:raphy)?)\b'
    <<Cat(<<WB, Cat(<<Lit(<<"g","e","o","g">>), Opt(Lit(<<"r","a","p","h","y">>))>>), WB>>),
      <<"G","E","O","G">>>>,
    \* r'\b(ling(?:uistics)?)\b'
    <<Cat(<<WB, Cat(<<Lit(<<"l","i","n","g">>), Opt(Lit(<<"u","i","s","t","i","c","s">>))>>), WB>>),
      <<"L","I","N","G">>>>,
    \* r'\b(kine(?:siology)?)\b'
    <<Cat(<<WB, Cat(<<Lit(<<"k","i","n","e">>), Opt(Lit(<<"s","i","o","l","o","g","y">>))>>), WB>>),
      <<"K","I","N","E">>>>,
    \* r'\b(social\s+work|swrk)\b'
    <<Cat(<<WB, Alt(<<Cat(<<Lit(<<"s","o","c","i","a","l">>), Plus(Cls(SpaceSet)), Lit(<<"w","o","r","k">>)>>), Lit(<<"s","w","r","k">>)>>), WB>>),
      <<"S","W","R","K">>>>,
    \* r'\b(nutr(?:ition)?|diet(?:etics)?)\b'
    <<Cat(<<WB, Alt(<<Cat(<<Lit(<<"n","u","t","r">>), Opt(Lit(<<"i","t","i","o","n">>))>>), Cat(<<Lit(<<"d","i","e","t">>), Opt(Lit(<<"e","t","i","c","s">>))>>)>>), WB>>),
      <<"N","U","T","R">>>>,
    \* r'\b(hist(?:ory)?)\b'
    <<Cat(<<WB, Cat(<<Lit(<<"h","i","s","t">>), Opt(Lit(<<"o","r","y">>))>>), WB>>),
      <<"H","I","S","T">>>>,
    \* r'\b(english|engl)\b'
    <<Cat(<<WB, Alt(<<Lit(<<"e","n","g","l","i","s","h">>), Lit(<<"e","n","g","l">>)>>), WB>>),
      <<"E","N","G","L">>>>,
    \* r'\b(french\s+(?:language|lit|studies?)|fren)\b'
    <<Cat(<<WB, Alt(<<Cat(<<Lit(<<"f","r","e","n","c","h">>), Plus(Cls(SpaceSet)), Alt(<<Lit(<<"l","a","n","g","u","a","g","e">>), Lit(<<"l","i","t">>), Cat(<<Lit(<<"s","t","u","d","i","e">>), Opt(Lit(<<"s">>))>>)>>)>>), Lit(<<"f","r","e","n">>)>>), WB>>),
      <<"F","R","E","N">>>>,
    \* r'\b(phil(?:osophy)?)\b'
    <<Cat(<<WB, Cat(<<Lit(<<"p","h","i","l">>), Opt(Lit(<<"o","s","o","p","h","y">>))>>), WB>>),
      <<"P","H","I","L">>>>,
    \* r'\b(relig(?:ion|ious\s+stud(?:ies)?))\b'
    <<Cat(<<WB, Cat(<<Lit(<<"r","e","l","i","g">>), Alt(<<Lit(<<"i","o","n">>), Cat(<<Lit(<<"i","o","u","s">>), Plus(Cls(SpaceSet)), Lit(<<"s","t","u","d">>), Opt(Lit(<<"i","e","s">>))>>)>>)>>), WB>>),
      <<"R","E","L","I">>>>,
    \* r'\b(art\s+hist(?:ory)?|arth)\b'
    <<Cat(<<WB, Alt(<<Cat(<<Lit(<<"a","r","t">>), Plus(Cls(SpaceSet)), Lit(<<"h","i","s","t">>), Opt(Lit(<<"o","r","y">>))>>), Lit(<<"a","r","t","h">>)>>), WB>>),
      <<"A","R","T","H">>>>,
    \* r'\b(music|musc)\b'
    <<Cat(<<WB, Alt(<<Lit(<<"m","u","s","i","c">>), Lit(<<"m","u","s","c">>)>>), WB>>),
      <<"M","U","S","C">>>>,
    \* r'\b(mgmt|management)\b'
    <<Cat(<<WB, Alt(<<Lit(<<"m","g","m","t">>), Lit(<<"m","a","n","a","g","e","m","e","n","t">>)>>), WB>>),
      <<"M","G","M","T">>>>,
    \* r'\b(nurs(?:ing)?)\b'
    <<Cat(<<WB, Cat(<<Lit(<<"n","u","r","s">>), Opt(Lit(<<"i","n","g">>))>>), WB>>),
      <<"N","U","R","S">>>>,
    \* r'\b(envir(?:onmental)?(?:\s+stud(?:ies)?)?|envi)\b'
    <<Cat(<<WB, Alt(<<Cat(<<Lit(<<"e","n","v","i","r">>), Opt(Lit(<<"o","n","m","e","n","t","a","l">>)), Opt(Cat(<<Plus(Cls(SpaceSet)), Lit(<<"s","t","u","d">>), Opt(Lit(<<"i","e","s">>))>>))>>), Lit(<<"e","n","v","i">>)>>), WB>>),
      <<"E","N","V","I">>>>,
    \* r'\b(educ(?:ation)?|edpe|edsl)\b'
    <<Cat(<<WB, Alt(<<Cat(<<Lit(<<"e","d","u","c">>), Opt(Lit(<<"a","t","i","o","n">>))>>), Lit(<<"e","d","p","e">>), Lit(<<"e","d","s","l">>)>>), WB>>),
      <<"E","D","P","E">>>>
>>

\* (regular expression, level) pairs; <<>> stands for None: the level is read from the match
level_patterns == <<
    \* r'\bu2\b'
    <<Cat(<<WB, Lit(<<"u","2">>), WB>>),
      <<200>>>>,
    \* r'\bu3\b'
    <<Cat(<<WB, Lit(<<"u","3">>), WB>>),
      <<300>>>>,
    \* r'\bu4\b'
    <<Cat(<<WB, Lit(<<"u","4">>), WB>>),
      <<400>>>>,
    \* r'\b(second|2nd|sophomore)\s*(year)?\b'
    <<Cat(<<WB, Alt(<<Lit(<<"s","e","c","o","n","d">>), Lit(<<"2","n","d">>), Lit(<<"s","o","p","h","o","m","o","r","e">>)>>), Star(Cls(SpaceSet)), Opt(Lit(<<"y","e","a","r">>)), WB>>),
      <<200>>>>,
    \* r'\b(third|3rd|junior)\s*(year)?\b'
    <<Cat(<<WB, Alt(<<Lit(<<"t","h","i","r","d">>), Lit(<<"3","r","d">>), Lit(<<"j","u","n","i","o","r">>)>>), Star(Cls(SpaceSet)), Opt(Lit(<<"y","e","a","r">>)), WB>>),
      <<300>>>>,
    \* r'\b(fourth|4th|senior)\s*(year)?\b'
    <<Cat(<<WB, Alt(<<Lit(<<"f","o","u","r","t","h">>), Lit(<<"4","t","h">>), Lit(<<"s","e","n","i","o","r">>)>>), Star(Cls(SpaceSet)), Opt(Lit(<<"y","e","a","r">>)), WB>>),
      <<400>>>>,
    \* r'\b(graduate|grad|masters?|phd)\b'
    <<Cat(<<WB, Alt(<<Lit(<<"g","r","a","d","u","a","t","e">>), Lit(<<"g","r","a","d">>), Cat(<<Lit(<<"m","a","s","t","e","r">>), Opt(Lit(<<"s">>))>>), Lit(<<"p","h","d">>)>>), WB>>),
      <<500>>>>,
    \* r'\b(\d)00[\s-]?level\b'
    <<Cat(<<WB, Cls(DigitSet), Lit(<<"0","0">>), Opt(Cls(SpaceSet \cup {"-"})), Lit(<<"l","e","v","e","l">>), WB>>),
      <<>>>>
>>

first_semester_patterns == <<
    \* r'\bu0\b'
    Cat(<<WB, Lit(<<"u","0">>), WB>>),
    \* r'\bu1\b'
    Cat(<<WB, Lit(<<"u","1">>), WB>>),
    \* r'foundation\s+program'
    Cat(<<Lit(<<"f","o","u","n","d","a","t","i","o","n">>), Plus(Cls(SpaceSet)), Lit(<<"p","r","o","g","r","a","m">>)>>),
    \* r'first\s*(semester|year)'
    Cat(<<Lit(<<"f","i","r","s","t">>), Star(Cls(SpaceSet)), Alt(<<Lit(<<"s","e","m","e","s","t","e","r">>), Lit(<<"y","e","a","r">>)>>)>>),
    \* r'start(ing)?\s*(with|out)'
    Cat(<<Lit(<<"s","t","a","r","t">>), Opt(Lit(<<"i","n","g">>)), Star(Cls(SpaceSet)), Alt(<<Lit(<<"w","i","t","h">>), Lit(<<"o","u","t">>)>>)>>),
    \* r'begin(ning|ner)?'
    Cat(<<Lit(<<"b","e","g","i","n">>), Opt(Alt(<<Lit(<<"n","i","n","g">>), Lit(<<"n","e","r">>)>>))>>),
    \* r'intro(ductory|duction)?'
    Cat(<<Lit(<<"i","n","t","r","o">>), Opt(Alt(<<Lit(<<"d","u","c","t","o","r","y">>), Lit(<<"d","u","c","t","i","o","n">>)>>))>>),
    \* r'entry[\s-]?level'
    Cat(<<Lit(<<"e","n","t","r","y">>), Opt(Cls(SpaceSet \cup {"-"})), Lit(<<"l","e","v","e","l">>)>>),
    \* r'no\s*prereq'
    Cat(<<Lit(<<"n","o">>), Star(Cls(SpaceSet)), Lit(<<"p","r","e","r","e","q">>)>>),
    \* r'should\s+i\s+take\s+first'
    Cat(<<Lit(<<"s","h","o","u","l","d">>), Plus(Cls(SpaceSet)), Lit(<<"i">>), Plus(Cls(SpaceSet)), Lit(<<"t","a","k","e">>), Plus(Cls(SpaceSet)), Lit(<<"f","i","r","s","t">>)>>),
    \* r'take\s+first'
    Cat(<<Lit(<<"t","a","k","e">>), Plus(Cls(SpaceSet)), Lit(<<"f","i","r","s","t">>)>>)
>>

available_patterns == <<
    \* r'(after|with|having|completed?|done|finished|took)\s+[A-Z]{3,4}\s*\d{3}.+[A-Z]{3,4}\s*\d{3}'
    Cat(<<Alt(<<Lit(<<"a","f","t","e","r">>), Lit(<<"w","i","t","h">>), Lit(<<"h","a","v","i","n","g">>), Cat(<<Lit(<<"c","o","m","p","l","e","t","e">>), Opt(Lit(<<"d">>))>>), Lit(<<"d","o","n","e">>), Lit(<<"f","i","n","i","s","h","e","d">>), Lit(<<"t","o","o","k">>)>>), Plus(Cls(SpaceSet)), Cat(<<Cls(UpperSet), Cls(UpperSet), Cls(UpperSet), Opt(Cls(UpperSet))>>), Star(Cls(SpaceSet)), Cat(<<Cls(DigitSet), Cls(DigitSet), Cls(DigitSet)>>), Plus(Dot), Cat(<<Cls(UpperSet), Cls(UpperSet), Cls(UpperSet), Opt(Cls(UpperSet))>>), Star(Cls(SpaceSet)), Cat(<<Cls(DigitSet), Cls(DigitSet), Cls(DigitSet)>>)>>),
    \* r'available\s+to\s+(me|take)'
    Cat(<<Lit(<<"a","v","a","i","l","a","b","l","e">>), Plus(Cls(SpaceSet)), Lit(<<"t","o">>), Plus(Cls(SpaceSet)), Alt(<<Lit(<<"m","e">>), Lit(<<"t","a","k","e">>)>>)>>)
>>

recommendation_patterns == <<
    \* r'should\s+i\s+take'
    Cat(<<Lit(<<"s","h","o","u","l","d">>), Plus(Cls(SpaceSet)), Lit(<<"i">>), Plus(Cls(SpaceSet)), Lit(<<"t","a","k","e">>)>>),
    \* r'recommend'
    Lit(<<"r","e","c","o","m","m","e","n","d">>),
    \* r'suggest'
    Lit(<<"s","u","g","g","e","s","t">>),
    \* r'best\s+courses?'
    Cat(<<Lit(<<"b","e","s","t">>), Plus(Cls(SpaceSet)), Lit(<<"c","o","u","r","s","e">>), Opt(Lit(<<"s">>))>>),
    \* r'good\s+courses?'
    Cat(<<Lit(<<"g","o","o","d">>), Plus(Cls(SpaceSet)), Lit(<<"c","o","u","r","s","e">>), Opt(Lit(<<"s">>))>>),
    \* r'what\s+courses?\s+(should|to)'
    Cat(<<Lit(<<"w","h","a","t">>), Plus(Cls(SpaceSet)), Lit(<<"c","o","u","r","s","e">>), Opt(Lit(<<"s">>)), Plus(Cls(SpaceSet)), Alt(<<Lit(<<"s","h","o","u","l","d">>), Lit(<<"t","o">>)>>)>>)
>>

\* ------------------------------------------------------------------------
\* detect_planning_query
\* ------------------------------------------------------------------------

\* None, for the values that are a string, a list or a dict in the code
None == <<>>

\* any(re.search(p, s) for p in patterns)
AnySearch(patterns, s) == \E k \in DOMAIN patterns : Search(patterns[k], s)

\* any(t in s for t in words)
AnyContains(words, s) == \E k \in DOMAIN words : Contains(s, words[k])

\* the index of the first (pattern, value) pair from k on whose pattern is found in s; 0 if none
RECURSIVE FirstSearch(_, _, _)
FirstSearch(pairs, k, s) ==
    IF k > Len(pairs) THEN 0
    ELSE IF Search(pairs[k][1], s) THEN k
    ELSE FirstSearch(pairs, k + 1, s)

\* for pattern, dept in dept_patterns: if re.search(pattern, query_lower): ...; break
ExtractDepartment(query_lower) ==
    LET k == FirstSearch(dept_patterns, 1, query_lower)
    IN  IF k = 0 THEN None ELSE dept_patterns[k][2]

\* ['fall', 'autumn', 'first semester', 'semester 1', 'f1']
fall_words == << <<"f","a","l","l">>, <<"a","u","t","u","m","n">>,
                 <<"f","i","r","s","t"," ","s","e","m","e","s","t","e","r">>,
                 <<"s","e","m","e","s","t","e","r"," ","1">>, <<"f","1">> >>
\* ['winter', 'second semester', 'semester 2', 'w2']
winter_words == << <<"w","i","n","t","e","r">>,
                   <<"s","e","c","o","n","d"," ","s","e","m","e","s","t","e","r">>,
                   <<"s","e","m","e","s","t","e","r"," ","2">>, <<"w","2">> >>
summer_word == <<"s","u","m","m","e","r">>

\* the term of the query: "fall", "winter", "summer" or "None"
ExtractTerm(query_lower) ==
    IF AnyContains(fall_words, query_lower) THEN "fall"
    ELSE IF AnyContains(winter_words, query_lower) THEN "winter"
    ELSE IF Contains(query_lower, summer_word) THEN "summer"
    ELSE "None"

\* int(c) of a digit character
DigitValue(c) == IndexIn(DigitSeq, c) - 1

\* The level as <<n>>, or None.  The last pattern, r'\b(\d)00[\s-]?level\b', carries
\* no level: int(match.group(1)) * 100 of the leftmost match, whose group 1 is its
\* first character.
ExtractLevel(query_lower) ==
    LET k == FirstSearch(level_patterns, 1, query_lower)
    IN  IF k = 0 THEN None
        ELSE IF level_patterns[k][2] # None THEN level_patterns[k][2]
        ELSE LET i == Min(MatchStarts(level_patterns[k][1], query_lower))
             IN  <<DigitValue(query_lower[i]) * 100>>

\* truth value of result["level"]: neither None nor 0
LevelIsSet(level) == level # None /\ level[1] # 0

\* [f"{dept} {num}" for dept, num in re.findall(r'\b([A-Z]{3,4})\s*(\d{3}[A-Z]?)\b', query.upper())]
ExtractCompleted(query) ==
    LET completed == PrereqCodeFindAll(Upper(query))
    IN  [k \in DOMAIN completed |-> completed[k].dept \o <<" ">> \o completed[k].num]

\* a variant of the chain below that tests the recommendation patterns first
PlanningType_recommendationFirst(query_lower, level) ==
    IF AnySearch(recommendation_patterns, query_lower) THEN "recommendation"
    ELSE IF AnySearch(first_semester_patterns, query_lower) THEN "first_semester"
    ELSE IF AnySearch(available_patterns, query_lower) THEN "available"
    ELSE IF LevelIsSet(level) THEN "by_level"
    ELSE "None"

\* The type decided by the chain of `if ... return result` of the source, "None" when
\* none of them returns.
PlanningType(query_lower, level) ==
    IF AnySearch(first_semester_patterns, query_lower) THEN "first_semester"
    ELSE IF AnySearch(available_patterns, query_lower) THEN "available"
    ELSE IF LevelIsSet(level) THEN "by_level"
    ELSE IF AnySearch(recommendation_patterns, query_lower) THEN "recommendation"
    ELSE "None"

\* detect_planning_query(query): <<result>>, or None when the query is not a planning
\* query.  result["type"] and result["term"] are "None" for None.
detect_planning_query(query) ==
    LET query_lower == Lower(query)
        department == ExtractDepartment(query_lower)
        term == ExtractTerm(query_lower)
        level == ExtractLevel(query_lower)
        type == PlanningType(query_lower, level)
        result == [type |-> type, department |-> department, term |-> term,
                   level |-> level,
                   completed |-> IF type = "available" THEN ExtractCompleted(query) ELSE <<>>]
    IN  IF type # "None" THEN <<result>>
        ELSE IF department # None \/ term # "None" THEN <<result>>
        ELSE None

\* ------------------------------------------------------------------------
\* Ordering and sorting
\* ------------------------------------------------------------------------

\* the characters of the model in code point order
AsciiSeq == <<" ", "'", ",", "-", ".">> \o DigitSeq \o <<";", "?">> \o UpperSeq
            \o <<"_">> \o LowerSeq

Ord(c) == IndexIn(AsciiSeq, c)

\* a < b of two Python strings
StrLess(a, b) ==
    \E k \in 1..(Len(a) + 1) :
        /\ k <= Len(b)
        /\ \A j \in 1..(k - 1) : a[j] = b[j]
        /\ (k = Len(a) + 1 \/ Ord(a[k]) < Ord(b[k]))

\* list.sort(key=Key) / sorted(items, key=Key): the key of every item is computed once,
\* the keys are compared by Less, and items of equal keys keep their order
SortBy(items, Key(_), Less(_, _)) ==
    LET n == Len(items)
        keys == [k \in 1..n |-> Key(items[k])]
        rank == [k \in 1..n |->
                   Cardinality({j \in 1..n : \/ Less(keys[j], keys[k])
                                             \/ (~Less(keys[k], keys[j]) /\ j < k)}) + 1]
    IN  [p \in 1..n |-> items[CHOOSE k \in 1..n : rank[k] = p]]

\* a < b of two integers
IntLess(a, b) == a < b

\* seq[:limit]
Take(seq, limit) == SubSeq(seq, 1, IF Len(seq) < limit THEN Len(seq) ELSE limit)

\* [x for x in seq if Keep(x)]
RECURSIVE FilterIdx(_, _, _)
FilterIdx(seq, keep, k) ==
    IF k > Len(seq) THEN <<>>
    ELSE (IF k \in keep THEN <<seq[k]>> ELSE <<>>) \o FilterIdx(seq, keep, k + 1)

Filter(seq, Keep(_)) == FilterIdx(seq, {k \in DOMAIN seq : Keep(seq[k])}, 1)

\* str.split(): the maximal runs of non-whitespace characters
RECURSIVE Split(_)
Split(s) ==
    LET t == LStrip(s)
    IN  IF t = <<>> THEN <<>>
        ELSE LET stops == {i \in 1..Len(t) : t[i] \in SpaceSet}
                 e == IF stops = {} THEN Len(t) + 1 ELSE Min(stops)
             IN  <<Slice(t, 1, e)>> \o Split(Slice(t, e, Len(t) + 1))

\* ------------------------------------------------------------------------
\* The course store (the courses table), read through the queries of the code.
\* A row is [id, title, prereq_text, offered_fall, offered_winter, offered_summer];
\* a NULL title or prereq_text is None.  `rows` is the table in the order in which
\* the database returns it.
\* ------------------------------------------------------------------------

\* Course.id.like(f"{department.upper()} %")
IdLikeDepartment(id, department) == StartsWith(id, Upper(department) \o <<" ">>)

\* the term filter shared by the three planning fetches: the row is skipped when the
\* term is given and the course is not offered in it
OfferedIn(c, term) ==
    /\ term = "fall" => c.offered_fall
    /\ term = "winter" => c.offered_winter
    /\ term = "summer" => c.offered_summer

s_none == <<"n","o","n","e">>
s_cegep == <<"c","e","g","e","p">>
s_comp == <<"c","o","m","p">>
s_math == <<"m","a","t","h">>

\* get_entry_level_courses: is_entry
is_entry(c) ==
    LET prereq_text == Lower(Strip(c.prereq_text))
    IN  \/ prereq_text = <<>>
        \/ prereq_text = s_none
        \/ /\ Contains(prereq_text, s_cegep)
           /\ ~Contains(prereq_text, s_comp)
           /\ ~Contains(prereq_text, s_math)

\* get_course_num: int(course["id"].split()[1][:3]), 999 when that raises
get_course_num(c) ==
    LET parts == Split(c.id)
        digits == IF Len(parts) >= 2 THEN Take(parts[2], 3) ELSE <<>>
    IN  IF digits # <<>> /\ \A k \in DOMAIN digits : digits[k] \in DigitSet
        THEN IF Len(digits) = 3
             THEN DigitValue(digits[1]) * 100 + DigitValue(digits[2]) * 10 + DigitValue(digits[3])
             ELSE IF Len(digits) = 2
             THEN DigitValue(digits[1]) * 10 + DigitValue(digits[2])
             ELSE DigitValue(digits[1])
        ELSE 999

\* key=lambda x: x["id"]
IdOf(c) == c.id

\* a variant of get_entry_level_courses that leaves the rows in table order
get_entry_level_courses_unsorted(rows, department, term, limit) ==
    LET EntryRow(c) == /\ department # None => IdLikeDepartment(c.id, department)
                       /\ is_entry(c)
                       /\ OfferedIn(c, term)
    IN  Take(Filter(rows, EntryRow), limit)

\* get_entry_level_courses(department, term, limit)
get_entry_level_courses(rows, department, term, limit) ==
    LET EntryRow(c) == /\ department # None => IdLikeDepartment(c.id, department)
                       /\ is_entry(c)
                       /\ OfferedIn(c, term)
    IN  Take(SortBy(Filter(rows, EntryRow), get_course_num, IntLess), limit)

\* str(level)[0] for a level of the model (a multiple of 100 below 1000, or 0)
LevelPrefix(level) == IF level < 10 THEN DigitSeq[level + 1] ELSE DigitSeq[(level \div 100) + 1]

\* get_courses_by_level(department, level, term, limit)
get_courses_by_level(rows, department, level, term, limit) ==
    LET LevelRow(c) == /\ StartsWith(c.id, Upper(department) \o <<" ">> \o <<LevelPrefix(level)>>)
                       /\ OfferedIn(c, term)
    IN  Take(SortBy(Filter(rows, LevelRow), IdOf, StrLess), limit)

\* get_available_courses(completed_courses, department, term, limit)
get_available_courses(rows, completed_courses, department, term, limit) ==
    LET completed_set == {Strip(Upper(completed_courses[k])) : k \in DOMAIN completed_courses}
        prereq_ids(c) == LET codes == PrereqCodeFindAll(Upper(Strip(c.prereq_text)))
                         IN  {codes[k].dept \o <<" ">> \o codes[k].num : k \in DOMAIN codes}
        Available(c) ==
            /\ department # None => IdLikeDepartment(c.id, department)
            /\ c.id \notin completed_set
            /\ OfferedIn(c, term)
            /\ \/ Strip(c.prereq_text) = <<>>
               \/ (prereq_ids(c) # {} /\ prereq_ids(c) \subseteq completed_set)
               \/ (prereq_ids(c) # {} /\ prereq_ids(c) \cap completed_set # {})
    IN  Take(SortBy(Filter(rows, Available), IdOf, StrLess), limit)

\* a variant that answers with the first course of the table when the id is missing
get_course_directly_someCourse(rows, course_id) ==
    LET found == Filter(rows, LAMBDA c : c.id = course_id)
    IN  IF found = <<>> THEN <<rows[1]>> ELSE <<found[1]>>

\* get_course_directly(course_id): <<row>>, or None
get_course_directly(rows, course_id) ==
    LET found == Filter(rows, LAMBDA c : c.id = course_id)
    IN  IF found = <<>> THEN None ELSE <<found[1]>>

\* the pattern of get_courses_requiring: rf'\b{normalized.replace(" ", "[- ]?")}\b'
RequiringPattern(normalized) ==
    Cat(<<WB,
          Cat([k \in DOMAIN normalized |->
                 IF normalized[k] = " " THEN Opt(Cls({"-", " "})) ELSE Lit(<<normalized[k]>>)]),
          WB>>)

\* course_id.replace("-", " ")
HyphensToSpaces(s) == [k \in DOMAIN s |-> IF s[k] = "-" THEN " " ELSE s[k]]

\* get_courses_requiring(course_id): the ids of the rows whose prerequisite text
\* mentions the course (IGNORECASE: both sides are compared in upper case)
get_courses_requiring(rows, course_id) ==
    IF course_id = <<>> THEN <<>>
    ELSE LET normalized == Upper(HyphensToSpaces(course_id))
             Mentions(c) == /\ c.prereq_text # None
                            /\ Search(RequiringPattern(normalized), Upper(c.prereq_text))
             matches == Filter(rows, Mentions)
         IN  [k \in DOMAIN matches |-> matches[k].id]

\* enrich_context(course_ids): the rows whose id is in the list, in table order
enrich_context(rows, course_ids) == Filter(rows, LAMBDA c : c.id \in Range(course_ids))

\* ------------------------------------------------------------------------
\* The title index (_title_to_id_cache, _duplicate_titles) and find_course_by_title.
\* A dict is the sequence of its <<key, value>> pairs in insertion order.
\* ------------------------------------------------------------------------

DictKeys(d) == {d[k][1] : k \in DOMAIN d}
DictHas(d, key) == \E k \in DOMAIN d : d[k][1] = key
DictGet(d, key) == d[CHOOSE k \in DOMAIN d : d[k][1] = key][2]
\* d[key] = value: a new key is appended, a known key keeps its place
DictSet(d, key, value) ==
    IF DictHas(d, key)
    THEN [k \in DOMAIN d |-> IF d[k][1] = key THEN <<key, value>> ELSE d[k]]
    ELSE Append(d, <<key, value>>)

\* _normalize_title(title): title.lower().strip().rstrip('.')
normalize_title(title) == RStripSet(Strip(Lower(title)), {"."})

\* _load_title_cache, first pass: title_to_courses, the ids per normalized title
\* (rows with a NULL or empty title are skipped)
RECURSIVE TitleToCourses(_, _, _)
TitleToCourses(rows, k, acc) ==
    IF k > Len(rows) THEN acc
    ELSE IF rows[k].title = <<>> THEN TitleToCourses(rows, k + 1, acc)
    ELSE LET normalized == normalize_title(rows[k].title)
             ids == IF DictHas(acc, normalized) THEN DictGet(acc, normalized) ELSE <<>>
         IN  TitleToCourses(rows, k + 1, DictSet(acc, normalized, Append(ids, rows[k].id)))

\* _load_title_cache, first pass: _id_to_title_cache[course_id] = title
RECURSIVE IdToTitle(_, _, _)
IdToTitle(rows, k, acc) ==
    IF k > Len(rows) THEN acc
    ELSE IF rows[k].title = <<>> THEN IdToTitle(rows, k + 1, acc)
    ELSE IdToTitle(rows, k + 1, DictSet(acc, rows[k].id, rows[k].title))

s_COMP_ == <<"C","O","M","P"," ">>

\* the default of a title shared by several courses: prefer COMP, then alphabetically first
DefaultCourse(course_ids) ==
    LET comp_courses == Filter(course_ids, LAMBDA c : StartsWith(c, s_COMP_))
    IN  IF comp_courses # <<>> THEN comp_courses[1]
        ELSE SortBy(course_ids, LAMBDA c : c, StrLess)[1]

\* _load_title_cache, second pass over title_to_courses from entry k on:
\* c is the record of the two dicts written
RECURSIVE SecondPass(_, _, _)
SecondPass(groups, k, c) ==
    IF k > Len(groups) THEN c
    ELSE LET normalized == groups[k][1]
             course_ids == groups[k][2]
         IN  SecondPass(groups, k + 1,
                IF Len(course_ids) > 1
                THEN [title_to_id |-> DictSet(c.title_to_id, normalized, DefaultCourse(course_ids)),
                      duplicates |-> DictSet(c.duplicates, normalized, course_ids)]
                ELSE [title_to_id |-> DictSet(c.title_to_id, normalized, course_ids[1]),
                      duplicates |-> c.duplicates])

\* the question phrases find_course_by_title removes
prefix_patterns == <<
    \* r"what are the prerequisites for\s+"
    Cat(<<Lit(<<"w","h","a","t"," ","a","r","e"," ","t","h","e"," ","p","r","e","r","e","q","u","i","s","i","t","e","s"," ","f","o","r">>), Plus(Cls(SpaceSet))>>),
    \* r"what are the prereqs for\s+"
    Cat(<<Lit(<<"w","h","a","t"," ","a","r","e"," ","t","h","e"," ","p","r","e","r","e","q","s"," ","f","o","r">>), Plus(Cls(SpaceSet))>>),
    \* r"what do i need for\s+"
    Cat(<<Lit(<<"w","h","a","t"," ","d","o"," ","i"," ","n","e","e","d"," ","f","o","r">>), Plus(Cls(SpaceSet))>>),
    \* r"prerequisites for\s+"
    Cat(<<Lit(<<"p","r","e","r","e","q","u","i","s","i","t","e","s"," ","f","o","r">>), Plus(Cls(SpaceSet))>>),
    \* r"prereqs for\s+"
    Cat(<<Lit(<<"p","r","e","r","e","q","s"," ","f","o","r">>), Plus(Cls(SpaceSet))>>),
    \* r"requirements for\s+"
    Cat(<<Lit(<<"r","e","q","u","i","r","e","m","e","n","t","s"," ","f","o","r">>), Plus(Cls(SpaceSet))>>),
    \* r"what is\s+"
    Cat(<<Lit(<<"w","h","a","t"," ","i","s">>), Plus(Cls(SpaceSet))>>),
    \* r"tell me about\s+"
    Cat(<<Lit(<<"t","e","l","l"," ","m","e"," ","a","b","o","u","t">>), Plus(Cls(SpaceSet))>>),
    \* r"describe\s+"
    Cat(<<Lit(<<"d","e","s","c","r","i","b","e">>), Plus(Cls(SpaceSet))>>),
    \* r"when is\s+"
    Cat(<<Lit(<<"w","h","e","n"," ","i","s">>), Plus(Cls(SpaceSet))>>),
    \* r"is\s+"
    Cat(<<Lit(<<"i","s">>), Plus(Cls(SpaceSet))>>)
>>

suffix_patterns == <<
    \* r"\s+about\??$"
    Cat(<<Plus(Cls(SpaceSet)), Lit(<<"a","b","o","u","t">>), Opt(Lit(<<"?">>)), EOS>>),
    \* r"\s+offered\??$"
    Cat(<<Plus(Cls(SpaceSet)), Lit(<<"o","f","f","e","r","e","d">>), Opt(Lit(<<"?">>)), EOS>>),
    \* r"\s+like\??$"
    Cat(<<Plus(Cls(SpaceSet)), Lit(<<"l","i","k","e">>), Opt(Lit(<<"?">>)), EOS>>),
    \* r"\??$"
    Cat(<<Opt(Lit(<<"?">>)), EOS>>)
>>

\* re.sub(r, "", s) from position pos on: every match is removed, leftmost first, the
\* scan resuming after the match.  The patterns of the code end in \s+ or in $, so the
\* match re takes at a start is the longest one.  An empty match removes nothing.
RECURSIVE SubFrom(_, _, _)
SubFrom(r, s, pos) ==
    LET starts == {i \in pos..(Len(s) + 1) : Ends(r, s, i) # {}}
    IN  IF starts = {} THEN Slice(s, pos, Len(s) + 1)
        ELSE LET i == Min(starts)
                 e == Max(Ends(r, s, i))
             IN  IF e = i
                 THEN IF i > Len(s) THEN Slice(s, pos, Len(s) + 1)
                      ELSE Slice(s, pos, i + 1) \o SubFrom(r, s, i + 1)
                 ELSE Slice(s, pos, i) \o SubFrom(r, s, e)

\* for pattern in patterns: s = re.sub(pattern, "", s)
RECURSIVE SubAll(_, _, _)
SubAll(patterns, k, s) ==
    IF k > Len(patterns) THEN s ELSE SubAll(patterns, k + 1, SubFrom(patterns[k], s, 1))

\* find_course_by_title: cleaned_query
CleanedQuery(query) ==
    LET query_lower == Strip(Lower(query))
    IN  normalize_title(SubAll(suffix_patterns, 1, SubAll(prefix_patterns, 1, query_lower)))

\* a variant of check_ambiguous that never returns alternatives
check_ambiguous_never(title_to_id, duplicates, normalized_title) ==
    <<DictGet(title_to_id, normalized_title), None>>

\* find_course_by_title.check_ambiguous(normalized_title)
check_ambiguous(title_to_id, duplicates, normalized_title) ==
    LET course_id == DictGet(title_to_id, normalized_title)
    IN  IF DictHas(duplicates, normalized_title)
        THEN <<course_id, DictGet(duplicates, normalized_title)>>
        ELSE <<course_id, None>>

\* strategy 2: the titles of at least 5 characters contained in the query, as indexes
\* into the dict; sorted(keys, key=len, reverse=True) puts the longest first and keeps
\* the insertion order among titles of one length
ContainedTitles(title_to_id, query_normalized) ==
    {k \in DOMAIN title_to_id : /\ Len(title_to_id[k][1]) >= 5
                                /\ Contains(query_normalized, title_to_id[k][1])}

\* a variant that takes the shortest title contained in the query
LongestFirst_shortest(title_to_id, ks) ==
    CHOOSE k \in ks : \A j \in ks : \/ Len(title_to_id[j][1]) > Len(title_to_id[k][1])
                                    \/ (Len(title_to_id[j][1]) = Len(title_to_id[k][1]) /\ k <= j)

LongestFirst(title_to_id, ks) ==
    CHOOSE k \in ks : \A j \in ks : \/ Len(title_to_id[j][1]) < Len(title_to_id[k][1])
                                    \/ (Len(title_to_id[j][1]) = Len(title_to_id[k][1]) /\ k <= j)

\* strategy 3: the titles that contain the cleaned query
ContainingTitles(title_to_id, cleaned_query) ==
    {k \in DOMAIN title_to_id : Contains(title_to_id[k][1], cleaned_query)}

\* The title find_course_by_title matches, as <<title>>, or None: the body of the
\* function after _load_title_cache().
MatchedTitle(query, title_to_id) ==
    LET cleaned_query == CleanedQuery(query)
        query_normalized == normalize_title(Strip(Lower(query)))
        contained == ContainedTitles(title_to_id, query_normalized)
        containing == ContainingTitles(title_to_id, cleaned_query)
    IN  IF title_to_id = <<>> THEN None
        ELSE IF DictHas(title_to_id, cleaned_query) THEN <<cleaned_query>>
        ELSE IF contained # {} THEN <<title_to_id[LongestFirst(title_to_id, contained)][1]>>
        ELSE IF Len(cleaned_query) >= 5 /\ containing # {} THEN <<title_to_id[Min(containing)][1]>>
        ELSE None

\* find_course_by_title(query) on a loaded index: <<course_id, alternatives>>
find_course_by_title(query, title_to_id, duplicates) ==
    LET title == MatchedTitle(query, title_to_id)
    IN  IF title = None THEN <<None, None>>
        ELSE check_ambiguous(title_to_id, duplicates, title[1])

\* a variant whose second call drops the index instead of keeping it
load_title_cache_dropping(rows, c) ==
    IF c.loaded
    THEN [title_to_id |-> <<>>, id_to_title |-> <<>>, duplicates |-> <<>>, loaded |-> TRUE]
    ELSE LET groups == TitleToCourses(rows, 1, <<>>)
             second == SecondPass(groups, 1, [title_to_id |-> c.title_to_id,
                                              duplicates |-> c.duplicates])
         IN  [title_to_id |-> second.title_to_id,
              id_to_title |-> IdToTitle(rows, 1, c.id_to_title),
              duplicates  |-> second.duplicates,
              loaded      |-> TRUE]

\* _load_title_cache() on the table `rows`: c is the record of the module-level
\* caches [title_to_id, id_to_title, duplicates, loaded]; the value is the record
\* after the call
load_title_cache(rows, c) ==
    IF c.loaded THEN c
    ELSE LET groups == TitleToCourses(rows, 1, <<>>)
             second == SecondPass(groups, 1, [title_to_id |-> c.title_to_id,
                                              duplicates |-> c.duplicates])
         IN  [title_to_id |-> second.title_to_id,
              id_to_title |-> IdToTitle(rows, 1, c.id_to_title),
              duplicates  |-> second.duplicates,
              loaded      |-> TRUE]

\* _COURSE_ID_RE.search(s): <<leftmost match>>, or None
CourseIdSearch(s) ==
    LET starts == {i \in 1..Len(s) : CourseIdMatchesAt(s, i) # {}}
    IN  IF starts = {} THEN None
        ELSE <<CHOOSE m \in CourseIdMatchesAt(s, Min(starts)) : TRUE>>

\* a variant that returns alternatives with a course code too
extract_course_id_codeWithAlternatives(query, rows, c) ==
    LET ByTitle(loaded, found) ==
            IF found[1] # None
            THEN [course_id |-> found[1], alternatives |-> found[2], cache |-> loaded]
            ELSE [course_id |-> None, alternatives |-> None, cache |-> loaded]
        Loaded(loaded) ==
            ByTitle(loaded, find_course_by_title(query, loaded.title_to_id, loaded.duplicates))
        ByCode(match) ==
            IF match # None
            THEN [course_id |-> CanonicalId(match[1]),
                  alternatives |-> <<CanonicalId(match[1]), CanonicalId(match[1])>>, cache |-> c]
            ELSE Loaded(load_title_cache(rows, c))
    IN  ByCode(CourseIdSearch(query))

\* extract_course_id(query): [course_id, alternatives, cache], cache being the caches
\* after the call (find_course_by_title loads the title index)
extract_course_id(query, rows, c) ==
    LET ByTitle(loaded, found) ==
            IF found[1] # None
            THEN [course_id |-> found[1], alternatives |-> found[2], cache |-> loaded]
            ELSE [course_id |-> None, alternatives |-> None, cache |-> loaded]
        Loaded(loaded) ==
            ByTitle(loaded, find_course_by_title(query, loaded.title_to_id, loaded.duplicates))
        ByCode(match) ==
            IF match # None
            THEN [course_id |-> CanonicalId(match[1]), alternatives |-> None, cache |-> c]
            ELSE Loaded(load_title_cache(rows, c))
    IN  ByCode(CourseIdSearch(query))

\* ------------------------------------------------------------------------
\* hybrid_search
\* ------------------------------------------------------------------------

\* ["prerequisite for", "prerequisites for", "prereqs for", "what do i need for",
\*  "requirements for"]
prereqs_for_phrases == <<
    <<"p","r","e","r","e","q","u","i","s","i","t","e"," ","f","o","r">>,
    <<"p","r","e","r","e","q","u","i","s","i","t","e","s"," ","f","o","r">>,
    <<"p","r","e","r","e","q","s"," ","f","o","r">>,
    <<"w","h","a","t"," ","d","o"," ","i"," ","n","e","e","d"," ","f","o","r">>,
    <<"r","e","q","u","i","r","e","m","e","n","t","s"," ","f","o","r">>
>>

\* ["require", "need", "courses that use", "after", "next", "finished", "completed",
\*  "done with", "taken", "what can i take"]
what_requires_phrases == <<
    <<"r","e","q","u","i","r","e">>,
    <<"n","e","e","d">>,
    <<"c","o","u","r","s","e","s"," ","t","h","a","t"," ","u","s","e">>,
    <<"a","f","t","e","r">>,
    <<"n","e","x","t">>,
    <<"f","i","n","i","s","h","e","d">>,
    <<"c","o","m","p","l","e","t","e","d">>,
    <<"d","o","n","e"," ","w","i","t","h">>,
    <<"t","a","k","e","n">>,
    <<"w","h","a","t"," ","c","a","n"," ","i"," ","t","a","k","e">>
>>

s_for == <<"f","o","r">>

is_asking_prereqs_for(course_id, query_lower) ==
    course_id # None /\ AnyContains(prereqs_for_phrases, query_lower)

\* a variant without the exclusion of "for"
is_asking_what_requires_withFor(course_id, query_lower) ==
    /\ course_id # None
    /\ AnyContains(what_requires_phrases, query_lower)

is_asking_what_requires(course_id, query_lower) ==
    /\ course_id # None
    /\ AnyContains(what_requires_phrases, query_lower)
    /\ ~Contains(query_lower, s_for)

\* One element of the returned list.  A key the code does not set is FALSE
\* (needs_clarification, is_planning_query), None (alternatives) or "None"
\* (planning_type); the score is in hundredths.
Element(course_id, score) ==
    [course_id |-> course_id, score |-> score,
     needs_clarification |-> FALSE, alternatives |-> None,
     is_planning_query |-> FALSE, planning_type |-> "None"]

\* [{"course_id": c["id"], "score": 0.0} for c in courses]
StructuralList(courses) == [k \in DOMAIN courses |-> Element(courses[k].id, 0)]

\* if alternatives and len(alternatives) > 1: result["needs_clarification"] = True; ...
WithClarification(element, alternatives) ==
    IF alternatives # None /\ Len(alternatives) > 1
    THEN [element EXCEPT !.needs_clarification = TRUE, !.alternatives = alternatives]
    ELSE element

\* The courses the planning branch fetches for a detected planning dict p (dept,
\* the parameter of hybrid_search, is None in every call of the repository); <<>>
\* when the branch fetches nothing.
PlanningCourses(rows, p) ==
    LET department == p.department
        term == p.term
    IN  CASE p.type = "first_semester" ->
                get_entry_level_courses(rows, department, term, 12)
          [] p.type = "by_level" ->
                IF department # None
                THEN get_courses_by_level(rows, department, p.level[1], term, 12)
                ELSE <<>>
          [] p.type = "available" ->
                IF p.completed # <<>>
                THEN get_available_courses(rows, p.completed, department, term, 15)
                ELSE <<>>
          [] p.type = "recommendation" ->
                IF department # None
                THEN IF LevelIsSet(p.level) /\ p.level[1] >= 200
                     THEN get_courses_by_level(rows, department, p.level[1], term, 12)
                     ELSE get_entry_level_courses(rows, department, term, 12)
                ELSE <<>>
          [] OTHER -> <<>>

\* if planning and planning.get("department"):
\*     dept_courses = get_entry_level_courses(department=dept, limit=15)
\* (<<>> when the condition fails)
DeptCourses(rows, planning) ==
    IF planning # None /\ planning[1].department # None
    THEN get_entry_level_courses(rows, planning[1].department, "None", 15)
    ELSE <<>>

\* the elements appended to `combined`: the department courses not already in it,
\* with score 0.5
Injected(dept_courses, combined) ==
    LET existing_ids == {combined[k].course_id : k \in DOMAIN combined}
        fresh == FilterIdx(dept_courses,
                           {k \in DOMAIN dept_courses : dept_courses[k].id \notin existing_ids}, 1)
    IN  [k \in DOMAIN fresh |-> Element(fresh[k].id, 50)]

\* a variant that consults the detector whatever the codes of the query
PlanningOf_always(query) ==
    detect_planning_query(query)

\* planning = detect_planning_query(query) if not has_specific_course else None
PlanningOf(query) ==
    IF ~has_specific_course(query) THEN detect_planning_query(query) ELSE None

\* the courses of the planning branch; <<>> when it does not return
PlanningBranch(rows, planning) ==
    IF planning # None /\ planning[1].type # "None"
    THEN PlanningCourses(rows, planning[1])
    ELSE <<>>

\* a variant that fetches the first code of the query only
DirectCourses_firstOnly(rows, all_course_ids) ==
    LET found == {k \in DOMAIN all_course_ids : get_course_directly(rows, all_course_ids[k]) # None}
    IN  FilterIdx(all_course_ids, found \cap {1}, 1)

\* the rows of the codes of the query that exist, in the order of the query
DirectCourses(rows, all_course_ids) ==
    LET found == {k \in DOMAIN all_course_ids : get_course_directly(rows, all_course_ids[k]) # None}
    IN  FilterIdx(all_course_ids, found, 1)

\* results[0] gets the alternatives; the other elements are plain
DirectList(direct, alternatives) ==
    [k \in DOMAIN direct |->
       IF k = 1 THEN WithClarification(Element(direct[k], 0), alternatives)
       ELSE Element(direct[k], 0)]

\* ------------------------------------------------------------------------
\* The inputs: course tables and queries
\* ------------------------------------------------------------------------

\* the number of generated entry-level COMP courses of the large table
BulkCourses == 13
\* the most hits the similarity index answers with
MaxHits == 2

\* the decimal digits of a number below 1000, as three characters
Digits3(n) == <<DigitSeq[(n \div 100) + 1], DigitSeq[((n \div 10) % 10) + 1], DigitSeq[(n % 10) + 1]>>

\* A catalogue: two courses titled "Operating Systems" (ECSE 427 first in table order),
\* two titled "Statistics" outside COMP, two entry-level COMP courses (COMP 202,
\* offered in fall or not according to `fall`; COMP 189, winter only).
CoreRows(fall) == <<
    [id |-> <<"E","C","S","E"," ","4","2","7">>,
     title |-> <<"O","p","e","r","a","t","i","n","g"," ","S","y","s","t","e","m","s",".">>,
     prereq_text |-> <<"E","C","S","E"," ","3","2","4"," ","o","r"," ","C","O","M","P"," ","2","7","3">>,
     offered_fall |-> TRUE, offered_winter |-> TRUE, offered_summer |-> FALSE],
    [id |-> <<"C","O","M","P"," ","3","1","0">>,
     title |-> <<"O","p","e","r","a","t","i","n","g"," ","S","y","s","t","e","m","s">>,
     prereq_text |-> <<"C","O","M","P"," ","2","7","3">>,
     offered_fall |-> TRUE, offered_winter |-> FALSE, offered_summer |-> FALSE],
    [id |-> <<"C","O","M","P"," ","2","0","2">>,
     title |-> <<"F","o","u","n","d","a","t","i","o","n","s"," ","o","f"," ","P","r","o","g","r","a","m","m","i","n","g">>,
     prereq_text |-> <<>>,
     offered_fall |-> fall, offered_winter |-> TRUE, offered_summer |-> TRUE],
    [id |-> <<"C","O","M","P"," ","2","5","0">>,
     title |-> <<"I","n","t","r","o","d","u","c","t","i","o","n"," ","t","o"," ","C","o","m","p","u","t","e","r"," ","S","c","i","e","n","c","e">>,
     prereq_text |-> <<"C","O","M","P"," ","2","0","2"," ","o","r"," ","C","O","M","P"," ","2","0","8">>,
     offered_fall |-> TRUE, offered_winter |-> TRUE, offered_summer |-> FALSE],
    [id |-> <<"C","O","M","P"," ","2","5","1">>,
     title |-> <<"A","l","g","o","r","i","t","h","m","s"," ","a","n","d"," ","D","a","t","a"," ","S","t","r","u","c","t","u","r","e","s">>,
     prereq_text |-> <<"C","O","M","P"," ","2","5","0",";"," ","M","A","T","H"," ","2","4","0">>,
     offered_fall |-> TRUE, offered_winter |-> TRUE, offered_summer |-> FALSE],
    [id |-> <<"C","O","M","P"," ","3","0","7">>,
     title |-> <<"P","r","i","n","c","i","p","l","e","s"," ","o","f"," ","W","e","b"," ","D","e","v","e","l","o","p","m","e","n","t">>,
     prereq_text |-> <<"C","O","M","P"," ","2","0","6"," ","a","n","d"," ","C","O","M","P"," ","2","5","0">>,
     offered_fall |-> FALSE, offered_winter |-> TRUE, offered_summer |-> FALSE],
    [id |-> <<"M","A","T","H"," ","1","3","3">>,
     title |-> <<"L","i","n","e","a","r"," ","A","l","g","e","b","r","a"," ","a","n","d"," ","G","e","o","m","e","t","r","y">>,
     prereq_text |-> <<>>,
     offered_fall |-> TRUE, offered_winter |-> TRUE, offered_summer |-> TRUE],
    [id |-> <<"C","O","M","P"," ","1","8","9">>,
     title |-> <<"C","o","m","p","u","t","e","r","s"," ","a","n","d"," ","S","o","c","i","e","t","y">>,
     prereq_text |-> <<"n","o","n","e">>,
     offered_fall |-> FALSE, offered_winter |-> TRUE, offered_summer |-> FALSE],
    [id |-> <<"P","S","Y","C"," ","3","0","5">>,
     title |-> <<"S","t","a","t","i","s","t","i","c","s">>,
     prereq_text |-> <<"P","S","Y","C"," ","2","0","4">>,
     offered_fall |-> TRUE, offered_winter |-> FALSE, offered_summer |-> FALSE],
    [id |-> <<"M","A","T","H"," ","2","0","4">>,
     title |-> <<"S","t","a","t","i","s","t","i","c","s",".">>,
     prereq_text |-> <<"M","A","T","H"," ","2","0","3">>,
     offered_fall |-> FALSE, offered_winter |-> TRUE, offered_summer |-> FALSE]
>>

\* n more entry-level COMP courses offered in fall, from COMP 179 downwards
BulkRows(n) ==
    [k \in 1..n |->
       [id |-> <<"C","O","M","P"," ">> \o Digits3(180 - k),
        title |-> <<"T","o","p","i","c"," ">> \o Digits3(180 - k),
        prereq_text |-> <<>>,
        offered_fall |-> TRUE, offered_winter |-> FALSE, offered_summer |-> FALSE]]

Stores == {CoreRows(TRUE), CoreRows(FALSE), BulkRows(BulkCourses) \o CoreRows(TRUE)}

\* how a query opens
Openings == {
    \* "What are the prerequisites for "
    <<"W","h","a","t"," ","a","r","e"," ","t","h","e"," ","p","r","e","r","e","q","u","i","s","i","t","e","s"," ","f","o","r"," ">>,
    \* "Tell me about "
    <<"T","e","l","l"," ","m","e"," ","a","b","o","u","t"," ">>,
    \* "What is "
    <<"W","h","a","t"," ","i","s"," ">>,
    \* "What courses require "
    <<"W","h","a","t"," ","c","o","u","r","s","e","s"," ","r","e","q","u","i","r","e"," ">>,
    \* "Should I take "
    <<"S","h","o","u","l","d"," ","I"," ","t","a","k","e"," ">>,
    \* "What's available after "
    <<"W","h","a","t","'","s"," ","a","v","a","i","l","a","b","l","e"," ","a","f","t","e","r"," ">>,
    \* "what 200-level courses need "
    <<"w","h","a","t"," ","2","0","0","-","l","e","v","e","l"," ","c","o","u","r","s","e","s"," ","n","e","e","d"," ">>,
    \* "What "
    <<"W","h","a","t"," ">>,
    \* "What is available to take in "
    <<"W","h","a","t"," ","i","s"," ","a","v","a","i","l","a","b","l","e"," ","t","o"," ","t","a","k","e"," ","i","n"," ">>
}

\* what it asks about: one code, two codes, a shared title, a department
Subjects == {
    \* "COMP 250"
    <<"C","O","M","P"," ","2","5","0">>,
    \* "COMP 250 and MATH 133"
    <<"C","O","M","P"," ","2","5","0"," ","a","n","d"," ","M","A","T","H"," ","1","3","3">>,
    \* "Operating Systems"
    <<"O","p","e","r","a","t","i","n","g"," ","S","y","s","t","e","m","s">>,
    \* "CS courses"
    <<"C","S"," ","c","o","u","r","s","e","s">>
}

\* how it ends
Endings == {
    \* "?"
    <<"?">>,
    \* " about?"
    <<" ","a","b","o","u","t","?">>,
    \* " first year?"
    <<" ","f","i","r","s","t"," ","y","e","a","r","?">>,
    \* " second year?"
    <<" ","s","e","c","o","n","d"," ","y","e","a","r","?">>,
    \* " should I take first semester?"
    <<" ","s","h","o","u","l","d"," ","I"," ","t","a","k","e"," ","f","i","r","s","t"," ","s","e","m","e","s","t","e","r","?">>
}

\* the openings of the questions on one course
CodeOpenings == {
    \* "What are the prerequisites for "
    <<"W","h","a","t"," ","a","r","e"," ","t","h","e"," ","p","r","e","r","e","q","u","i","s","i","t","e","s"," ","f","o","r"," ">>,
    \* "Tell me about "
    <<"T","e","l","l"," ","m","e"," ","a","b","o","u","t"," ">>,
    \* "Should I take "
    <<"S","h","o","u","l","d"," ","I"," ","t","a","k","e"," ">>
}

\* the course: its code in other spellings, a code not in the table, a title
CodeSubjects == {
    \* "comp-250"
    <<"c","o","m","p","-","2","5","0">>,
    \* "Comp250"
    <<"C","o","m","p","2","5","0">>,
    \* "COMP 251"
    <<"C","O","M","P"," ","2","5","1">>,
    \* "COMP 307"
    <<"C","O","M","P"," ","3","0","7">>,
    \* "ZZZZ 999"
    <<"Z","Z","Z","Z"," ","9","9","9">>,
    \* "ZZZZ 999, COMP 250 and MATH 133"
    <<"Z","Z","Z","Z"," ","9","9","9",","," ","C","O","M","P"," ","2","5","0"," ","a","n","d"," ","M","A","T","H"," ","1","3","3">>,
    \* "Statistics"
    <<"S","t","a","t","i","s","t","i","c","s">>,
    \* "Foundations of Programming"
    <<"F","o","u","n","d","a","t","i","o","n","s"," ","o","f"," ","P","r","o","g","r","a","m","m","i","n","g">>
}

\* their endings
CodeEndings == {
    \* "?"
    <<"?">>,
    \* " first year?"
    <<" ","f","i","r","s","t"," ","y","e","a","r","?">>
}

\* questions of the test suite and of the documentation, as written there, and two
\* questions with the words of both intents
Scenarios == {
    \* "Tell me about Operating Systems"
    <<"T","e","l","l"," ","m","e"," ","a","b","o","u","t"," ","O","p","e","r","a","t","i","n","g"," ","S","y","s","t","e","m","s">>,
    \* "What can I take after COMP 250?"
    <<"W","h","a","t"," ","c","a","n"," ","I"," ","t","a","k","e"," ","a","f","t","e","r"," ","C","O","M","P"," ","2","5","0","?">>,
    \* "What 200-level COMP courses are there?"
    <<"W","h","a","t"," ","2","0","0","-","l","e","v","e","l"," ","C","O","M","P"," ","c","o","u","r","s","e","s"," ","a","r","e"," ","t","h","e","r","e","?">>,
    \* "Can you recommend some good CS courses?"
    <<"C","a","n"," ","y","o","u"," ","r","e","c","o","m","m","e","n","d"," ","s","o","m","e"," ","g","o","o","d"," ","C","S"," ","c","o","u","r","s","e","s","?">>,
    \* "I have 120 credits, what are the prereqs for COMP 250?"
    <<"I"," ","h","a","v","e"," ","1","2","0"," ","c","r","e","d","i","t","s",","," ","w","h","a","t"," ","a","r","e"," ","t","h","e"," ","p","r","e","r","e","q","s"," ","f","o","r"," ","C","O","M","P"," ","2","5","0","?">>,
    \* "What do I need for COMP 250?"
    <<"W","h","a","t"," ","d","o"," ","I"," ","n","e","e","d"," ","f","o","r"," ","C","O","M","P"," ","2","5","0","?">>,
    \* "What can I take after COMP 250 for credit?"
    <<"W","h","a","t"," ","c","a","n"," ","I"," ","t","a","k","e"," ","a","f","t","e","r"," ","C","O","M","P"," ","2","5","0"," ","f","o","r"," ","c","r","e","d","i","t","?">>
}

Queries ==
    {o \o s \o e : o \in Openings, s \in Subjects, e \in Endings}
    \cup {o \o s \o e : o \in CodeOpenings, s \in CodeSubjects, e \in CodeEndings}
    \cup Scenarios

\* One hit of the similarity index: {"course_id": id_, "score": float(score)}
Hit(id, distance) == Element(id, distance)

\* The answers of the similarity index (semantic_search): at most MaxHits hits on
\* distinct courses among the first MaxHits of the table, nearest first; the distance
\* of the k-th hit is 0.2 * k, written in hundredths.
SemanticAnswers(rows) ==
    LET ids == {rows[k].id : k \in 1..(IF Len(rows) < MaxHits THEN Len(rows) ELSE MaxHits)}
        lists == UNION {[1..n -> ids] : n \in 0..MaxHits}
    IN  {[k \in DOMAIN l |-> Hit(l[k], 20 * k)] :
           l \in {l \in lists : \A i, j \in DOMAIN l : i # j => l[i] # l[j]}}

\* ------------------------------------------------------------------------
\* Course nicknames (qa_agent.py)
\* ------------------------------------------------------------------------

\* COURSE_ALIASES, in the order of the dict literal
COURSE_ALIASES == <<
    \* "calc 1": "MATH 140"
    <<<<"c","a","l","c"," ","1">>, <<"M","A","T","H"," ","1","4","0">>>>,
    \* "calculus 1": "MATH 140"
    <<<<"c","a","l","c","u","l","u","s"," ","1">>, <<"M","A","T","H"," ","1","4","0">>>>,
    \* "calc 2": "MATH 141"
    <<<<"c","a","l","c"," ","2">>, <<"M","A","T","H"," ","1","4","1">>>>,
    \* "calculus 2": "MATH 141"
    <<<<"c","a","l","c","u","l","u","s"," ","2">>, <<"M","A","T","H"," ","1","4","1">>>>,
    \* "calc 3": "MATH 222"
    <<<<"c","a","l","c"," ","3">>, <<"M","A","T","H"," ","2","2","2">>>>,
    \* "calculus 3": "MATH 222"
    <<<<"c","a","l","c","u","l","u","s"," ","3">>, <<"M","A","T","H"," ","2","2","2">>>>,
    \* "linear algebra": "MATH 133"
    <<<<"l","i","n","e","a","r"," ","a","l","g","e","b","r","a">>, <<"M","A","T","H"," ","1","3","3">>>>,
    \* "lin alg": "MATH 133"
    <<<<"l","i","n"," ","a","l","g">>, <<"M","A","T","H"," ","1","3","3">>>>,
    \* "discrete math": "MATH 240"
    <<<<"d","i","s","c","r","e","t","e"," ","m","a","t","h">>, <<"M","A","T","H"," ","2","4","0">>>>,
    \* "discrete": "MATH 240"
    <<<<"d","i","s","c","r","e","t","e">>, <<"M","A","T","H"," ","2","4","0">>>>,
    \* "ode": "MATH 323"
    <<<<"o","d","e">>, <<"M","A","T","H"," ","3","2","3">>>>,
    \* "pde": "MATH 324"
    <<<<"p","d","e">>, <<"M","A","T","H"," ","3","2","4">>>>,
    \* "real analysis": "MATH 242"
    <<<<"r","e","a","l"," ","a","n","a","l","y","s","i","s">>, <<"M","A","T","H"," ","2","4","2">>>>,
    \* "intro to cs": "COMP 202"
    <<<<"i","n","t","r","o"," ","t","o"," ","c","s">>, <<"C","O","M","P"," ","2","0","2">>>>,
    \* "intro cs": "COMP 202"
    <<<<"i","n","t","r","o"," ","c","s">>, <<"C","O","M","P"," ","2","0","2">>>>,
    \* "data structures": "COMP 250"
    <<<<"d","a","t","a"," ","s","t","r","u","c","t","u","r","e","s">>, <<"C","O","M","P"," ","2","5","0">>>>,
    \* "algorithms": "COMP 251"
    <<<<"a","l","g","o","r","i","t","h","m","s">>, <<"C","O","M","P"," ","2","5","1">>>>,
    \* "operating systems": "COMP 310"
    <<<<"o","p","e","r","a","t","i","n","g"," ","s","y","s","t","e","m","s">>, <<"C","O","M","P"," ","3","1","0">>>>,
    \* "os": "COMP 310"
    <<<<"o","s">>, <<"C","O","M","P"," ","3","1","0">>>>,
    \* "databases": "COMP 421"
    <<<<"d","a","t","a","b","a","s","e","s">>, <<"C","O","M","P"," ","4","2","1">>>>,
    \* "ai": "COMP 424"
    <<<<"a","i">>, <<"C","O","M","P"," ","4","2","4">>>>,
    \* "machine learning": "COMP 551"
    <<<<"m","a","c","h","i","n","e"," ","l","e","a","r","n","i","n","g">>, <<"C","O","M","P"," ","5","5","1">>>>,
    \* "ml": "COMP 551"
    <<<<"m","l">>, <<"C","O","M","P"," ","5","5","1">>>>,
    \* "compilers": "COMP 520"
    <<<<"c","o","m","p","i","l","e","r","s">>, <<"C","O","M","P"," ","5","2","0">>>>,
    \* "computer graphics": "COMP 557"
    <<<<"c","o","m","p","u","t","e","r"," ","g","r","a","p","h","i","c","s">>, <<"C","O","M","P"," ","5","5","7">>>>,
    \* "graphics": "COMP 557"
    <<<<"g","r","a","p","h","i","c","s">>, <<"C","O","M","P"," ","5","5","7">>>>
>>

\* r'\b' + re.escape(alias) + r'\b' matches s at i (re.IGNORECASE; the aliases are in
\* lower case)
AliasAt(s, alias, i) ==
    /\ OccursAt(Lower(s), alias, i)
    /\ Boundary(s, i)
    /\ Boundary(s, i + Len(alias))

\* re.sub(pattern, code, s, flags=re.IGNORECASE) from position pos on: the matches are
\* taken left to right in s and do not overlap
RECURSIVE SubAlias(_, _, _, _)
SubAlias(s, pos, alias, code) ==
    LET starts == {i \in pos..Len(s) : AliasAt(s, alias, i)}
    IN  IF starts = {} THEN Slice(s, pos, Len(s) + 1)
        ELSE Slice(s, pos, Min(starts)) \o code
             \o SubAlias(s, Min(starts) + Len(alias), alias, code)

\* the loop of replace_aliases over `aliases` from entry k on (re.sub leaves a string
\* without a match as it is, so the re.search before it changes nothing)
RECURSIVE ReplaceFrom(_, _, _)
ReplaceFrom(aliases, k, replaced) ==
    IF k > Len(aliases) THEN replaced
    ELSE ReplaceFrom(aliases, k + 1, SubAlias(replaced, 1, aliases[k][1], aliases[k][2]))

\* key=len, reverse=True: the longer key first
Longer(a, b) == a > b

\* replace_aliases(query): sorted(COURSE_ALIASES.keys(), key=len, reverse=True)
replace_aliases(query) ==
    ReplaceFrom(SortBy(COURSE_ALIASES, LAMBDA e : Len(e[1]), Longer), 1, query)

\* how a nickname is written in a question: as in the table, in capitals, capitalised
Spellings(alias) == {alias, Upper(alias), <<UpperChar(alias[1])>> \o Tail(alias)}

\* the nicknames of the table
Aliases == {COURSE_ALIASES[k][1] : k \in DOMAIN COURSE_ALIASES}

\* questions with one nickname in each spelling, with two nicknames, and with a nickname
\* inside a longer word
AliasQueries ==
    {<<"I","s"," ">> \o a \o <<" ","h","a","r","d","?">> : a \in UNION {Spellings(x) : x \in Aliases}}
    \cup {a \o <<" ">> \o b : a \in Aliases, b \in Aliases}
    \cup {<<"c","h","a","o","s"," ","a","n","d"," ","g","r","a","p","h","i","c","s","c","a","r","d">>, <<"c","a","l","c"," ","1","0"," ","o","r"," ","c","a","l","c"," ","1","?">>}

\* ------------------------------------------------------------------------
\* The kind of prerequisite question (qa_agent.py)
\* ------------------------------------------------------------------------

prereq_chain_patterns == <<
    \* r'should i take .+ before'
    Cat(<<Lit(<<"s","h","o","u","l","d"," ","i"," ","t","a","k","e"," ">>), Plus(Dot), Lit(<<" ","b","e","f","o","r","e">>)>>),
    \* r'do i need .+ before'
    Cat(<<Lit(<<"d","o"," ","i"," ","n","e","e","d"," ">>), Plus(Dot), Lit(<<" ","b","e","f","o","r","e">>)>>),
    \* r'is .+ required (for|before)'
    Cat(<<Lit(<<"i","s"," ">>), Plus(Dot), Lit(<<" ","r","e","q","u","i","r","e","d"," ">>), Alt(<<Lit(<<"f","o","r">>), Lit(<<"b","e","f","o","r","e">>)>>)>>),
    \* r'take .+ before .+\?'
    Cat(<<Lit(<<"t","a","k","e"," ">>), Plus(Dot), Lit(<<" ","b","e","f","o","r","e"," ">>), Plus(Dot), Lit(<<"?">>)>>),
    \* r'need .+ (for|to take)'
    Cat(<<Lit(<<"n","e","e","d"," ">>), Plus(Dot), Lit(<<" ">>), Alt(<<Lit(<<"f","o","r">>), Lit(<<"t","o"," ","t","a","k","e">>)>>)>>)
>>

reverse_patterns == <<
    \* r"what can i take after"
    Lit(<<"w","h","a","t"," ","c","a","n"," ","i"," ","t","a","k","e"," ","a","f","t","e","r">>),
    \* r"what should i take after"
    Lit(<<"w","h","a","t"," ","s","h","o","u","l","d"," ","i"," ","t","a","k","e"," ","a","f","t","e","r">>),
    \* r"what courses? require"
    Cat(<<Lit(<<"w","h","a","t"," ","c","o","u","r","s","e">>), Opt(Lit(<<"s">>)), Lit(<<" ","r","e","q","u","i","r","e">>)>>),
    \* r"i finished .+,? what'?s next"
    Cat(<<Lit(<<"i"," ","f","i","n","i","s","h","e","d"," ">>), Plus(Dot), Opt(Lit(<<",">>)), Lit(<<" ","w","h","a","t">>), Opt(Lit(<<"'">>)), Lit(<<"s"," ","n","e","x","t">>)>>),
    \* r"after .+,? what"
    Cat(<<Lit(<<"a","f","t","e","r"," ">>), Plus(Dot), Opt(Lit(<<",">>)), Lit(<<" ","w","h","a","t">>)>>),
    \* r"courses? that need"
    Cat(<<Lit(<<"c","o","u","r","s","e">>), Opt(Lit(<<"s">>)), Lit(<<" ","t","h","a","t"," ","n","e","e","d">>)>>),
    \* r"what('s| is) next after"
    Cat(<<Lit(<<"w","h","a","t">>), Alt(<<Lit(<<"'","s">>), Lit(<<" ","i","s">>)>>), Lit(<<" ","n","e","x","t"," ","a","f","t","e","r">>)>>),
    \* r"take after"
    Lit(<<"t","a","k","e"," ","a","f","t","e","r">>)
>>

\* a variant that checks the reverse patterns first
detect_query_type_reverseFirst(query) ==
    LET query_lower == Lower(query)
    IN  IF AnySearch(reverse_patterns, query_lower) THEN "reverse_prereq"
        ELSE IF AnySearch(prereq_chain_patterns, query_lower) THEN "prereq_chain"
        ELSE "prereq"

\* detect_query_type(query)
detect_query_type(query) ==
    LET query_lower == Lower(query)
    IN  IF AnySearch(prereq_chain_patterns, query_lower) THEN "prereq_chain"
        ELSE IF AnySearch(reverse_patterns, query_lower) THEN "reverse_prereq"
        ELSE "prereq"

\* the questions given to detect_query_type: how they start, then how they go on
QueryTypeQuestions ==
    LET heads == {
            \* "Should I take COMP 202 before COMP 250"
            <<"S","h","o","u","l","d"," ","I"," ","t","a","k","e"," ","C","O","M","P"," ","2","0","2"," ","b","e","f","o","r","e"," ","C","O","M","P"," ","2","5","0">>,
            \* "Do I need MATH 133 before MATH 240"
            <<"D","o"," ","I"," ","n","e","e","d"," ","M","A","T","H"," ","1","3","3"," ","b","e","f","o","r","e"," ","M","A","T","H"," ","2","4","0">>,
            \* "Is COMP 250 required for COMP 251"
            <<"I","s"," ","C","O","M","P"," ","2","5","0"," ","r","e","q","u","i","r","e","d"," ","f","o","r"," ","C","O","M","P"," ","2","5","1">>,
            \* "What courses require COMP 250"
            <<"W","h","a","t"," ","c","o","u","r","s","e","s"," ","r","e","q","u","i","r","e"," ","C","O","M","P"," ","2","5","0">>,
            \* "I finished COMP 250"
            <<"I"," ","f","i","n","i","s","h","e","d"," ","C","O","M","P"," ","2","5","0">>,
            \* "What courses that need COMP 250"
            <<"W","h","a","t"," ","c","o","u","r","s","e","s"," ","t","h","a","t"," ","n","e","e","d"," ","C","O","M","P"," ","2","5","0">>,
            \* "What is COMP 250"
            <<"W","h","a","t"," ","i","s"," ","C","O","M","P"," ","2","5","0">>,
            \* "What can I take after COMP 250"
            <<"W","h","a","t"," ","c","a","n"," ","I"," ","t","a","k","e"," ","a","f","t","e","r"," ","C","O","M","P"," ","2","5","0">>,
            \* "What's next after COMP 202"
            <<"W","h","a","t","'","s"," ","n","e","x","t"," ","a","f","t","e","r"," ","C","O","M","P"," ","2","0","2">>,
            \* "Can I take COMP 251"
            <<"C","a","n"," ","I"," ","t","a","k","e"," ","C","O","M","P"," ","2","5","1">>}
        tails == {
            \* ""
            <<>>,
            \* "?"
            <<"?">>,
            \* ", what's next?"
            <<","," ","w","h","a","t","'","s"," ","n","e","x","t","?">>,
            \* " and after that, what?"
            <<" ","a","n","d"," ","a","f","t","e","r"," ","t","h","a","t",","," ","w","h","a","t","?">>,
            \* " for my degree?"
            <<" ","f","o","r"," ","m","y"," ","d","e","g","r","e","e","?">>,
            \* " before graduating?"
            <<" ","b","e","f","o","r","e"," ","g","r","a","d","u","a","t","i","n","g","?">>}
    IN  {h \o t : h \in heads, t \in tails}

\* ------------------------------------------------------------------------
\* Loading the catalogue (load_all_courses.py, db_utils.py, scraper.py)
\* ------------------------------------------------------------------------

\* the longest list of links loaded
MaxLinks == 3

\* The course pages of the catalogue, each with the link that leads to it and with what
\* its tags hold: the code and the title of the <title> tag, the description, the credits
\* (in tenths), the department, the terms, the text around "Prerequisite(s):" (None when
\* the page has none) and the texts around each "Corequisite(s):".
CataloguePages == <<
    [link |-> <<"h","t","t","p","s",":","/","/","c","o","u","r","s","e","c","a","t","a","l","o","g","u","e",".","m","c","g","i","l","l",".","c","a","/","c","o","u","r","s","e","s","/","c","o","m","p","-","2","0","2","/">>,
     code |-> <<"C","O","M","P"," ","2","0","2">>,
     title |-> <<"F","o","u","n","d","a","t","i","o","n","s"," ","o","f"," ","P","r","o","g","r","a","m","m","i","n","g",".">>,
     description |-> <<"I","n","t","r","o","d","u","c","t","i","o","n"," ","t","o"," ","p","r","o","g","r","a","m","m","i","n","g",".">>,
     credits |-> 30,
     offered_by |-> <<"C","o","m","p","u","t","e","r"," ","S","c","i","e","n","c","e"," ","(","F","a","c","u","l","t","y"," ","o","f"," ","S","c","i","e","n","c","e",")">>,
     offered_fall |-> TRUE, offered_winter |-> TRUE, offered_summer |-> TRUE,
     prerequisites |-> <<>>,
     corequisites |-> <<>>],
    [link |-> <<"h","t","t","p","s",":","/","/","c","o","u","r","s","e","c","a","t","a","l","o","g","u","e",".","m","c","g","i","l","l",".","c","a","/","c","o","u","r","s","e","s","/","c","o","m","p","-","2","5","0","/">>,
     code |-> <<"C","O","M","P"," ","2","5","0">>,
     title |-> <<"I","n","t","r","o","d","u","c","t","i","o","n"," ","t","o"," ","C","o","m","p","u","t","e","r"," ","S","c","i","e","n","c","e",".">>,
     description |-> <<"A","l","g","o","r","i","t","h","m","s"," ","a","n","d"," ","d","a","t","a"," ","s","t","r","u","c","t","u","r","e","s",".">>,
     credits |-> 30,
     offered_by |-> <<"C","o","m","p","u","t","e","r"," ","S","c","i","e","n","c","e"," ","(","F","a","c","u","l","t","y"," ","o","f"," ","S","c","i","e","n","c","e",")">>,
     offered_fall |-> TRUE, offered_winter |-> TRUE, offered_summer |-> FALSE,
     prerequisites |-> <<"P","r","e","r","e","q","u","i","s","i","t","e","s",":"," ","C","O","M","P"," ","2","0","2"," ","o","r"," ","C","O","M","P"," ","2","0","8">>,
     corequisites |-> <<>>],
    [link |-> <<"h","t","t","p","s",":","/","/","c","o","u","r","s","e","c","a","t","a","l","o","g","u","e",".","m","c","g","i","l","l",".","c","a","/","c","o","u","r","s","e","s","/","c","o","m","p","-","2","5","1">>,
     code |-> <<"C","O","M","P","-","2","5","1">>,
     title |-> <<"A","l","g","o","r","i","t","h","m","s"," ","a","n","d"," ","D","a","t","a"," ","S","t","r","u","c","t","u","r","e","s",".">>,
     description |-> <<"D","e","s","i","g","n"," ","a","n","d"," ","a","n","a","l","y","s","i","s"," ","o","f"," ","a","l","g","o","r","i","t","h","m","s",".">>,
     credits |-> 30,
     offered_by |-> <<"C","o","m","p","u","t","e","r"," ","S","c","i","e","n","c","e"," ","(","F","a","c","u","l","t","y"," ","o","f"," ","S","c","i","e","n","c","e",")">>,
     offered_fall |-> TRUE, offered_winter |-> TRUE, offered_summer |-> FALSE,
     prerequisites |-> <<"P","r","e","r","e","q","u","i","s","i","t","e",":"," ","C","O","M","P"," ","2","5","0">>,
     corequisites |-> <<<<"C","o","r","e","q","u","i","s","i","t","e",":"," ","M","A","T","H"," ","2","4","0">>>>],
    [link |-> <<"h","t","t","p","s",":","/","/","c","o","u","r","s","e","c","a","t","a","l","o","g","u","e",".","m","c","g","i","l","l",".","c","a","/","c","o","u","r","s","e","s","/","m","a","t","h","-","2","4","0","/","i","n","d","e","x",".","h","t","m","l">>,
     code |-> <<"M","A","T","H"," ","2","4","0">>,
     title |-> <<"D","i","s","c","r","e","t","e"," ","S","t","r","u","c","t","u","r","e","s",".">>,
     description |-> <<"L","o","g","i","c",","," ","s","e","t","s"," ","a","n","d"," ","g","r","a","p","h","s",".">>,
     credits |-> 30,
     offered_by |-> <<"M","a","t","h","e","m","a","t","i","c","s"," ","a","n","d"," ","S","t","a","t","i","s","t","i","c","s"," ","(","F","a","c","u","l","t","y"," ","o","f"," ","S","c","i","e","n","c","e",")">>,
     offered_fall |-> TRUE, offered_winter |-> TRUE, offered_summer |-> FALSE,
     prerequisites |-> <<>>,
     corequisites |-> <<<<"C","o","r","e","q","u","i","s","i","t","e","s",":"," ","M","A","T","H"," ","1","3","3">>>>],
    [link |-> <<"h","t","t","p","s",":","/","/","c","o","u","r","s","e","c","a","t","a","l","o","g","u","e",".","m","c","g","i","l","l",".","c","a","/","c","o","u","r","s","e","s","/","M","A","T","H","-","1","3","3">>,
     code |-> <<"M","A","T","H"," ","1","3","3">>,
     title |-> <<"L","i","n","e","a","r"," ","A","l","g","e","b","r","a"," ","a","n","d"," ","G","e","o","m","e","t","r","y",".">>,
     description |-> <<"S","y","s","t","e","m","s"," ","o","f"," ","l","i","n","e","a","r"," ","e","q","u","a","t","i","o","n","s",".">>,
     credits |-> 30,
     offered_by |-> <<"M","a","t","h","e","m","a","t","i","c","s"," ","a","n","d"," ","S","t","a","t","i","s","t","i","c","s"," ","(","F","a","c","u","l","t","y"," ","o","f"," ","S","c","i","e","n","c","e",")">>,
     offered_fall |-> TRUE, offered_winter |-> TRUE, offered_summer |-> TRUE,
     prerequisites |-> <<>>,
     corequisites |-> <<>>]>>

\* re.search(r'/courses/([a-z]{3,4})-(\d{3}[a-z]?)/?', url, re.IGNORECASE) tried at the
\* position i: <<<<dept, num>>>>, or None
LinkMatchAt(url, i) ==
    LET courses == <<"/","c","o","u","r","s","e","s","/">>
        \* the department has n letters
        fits(n) ==
            /\ i + 12 + n <= Len(url)
            /\ Lower(SubSeq(url, i, i + 8)) = courses
            /\ \A j \in (i + 9)..(i + 8 + n) : url[j] \in LetterSet
            /\ url[i + 9 + n] = "-"
            /\ \A j \in (i + 10 + n)..(i + 12 + n) : url[j] \in DigitSet
        groups(n) ==
            LET last == IF i + 13 + n <= Len(url) /\ url[i + 13 + n] \in LetterSet
                        THEN i + 13 + n ELSE i + 12 + n
            IN  <<SubSeq(url, i + 9, i + 8 + n), SubSeq(url, i + 10 + n, last)>>
    IN  IF fits(4) THEN <<groups(4)>>
        ELSE IF fits(3) THEN <<groups(3)>>
        ELSE None

\* the same search over the whole url: the leftmost match
RECURSIVE LinkMatch(_, _)
LinkMatch(url, i) ==
    IF i > Len(url) THEN None
    ELSE IF LinkMatchAt(url, i) # None THEN LinkMatchAt(url, i)
    ELSE LinkMatch(url, i + 1)

\* f"{dept.upper()} {num.upper()}" of main, None when the url does not match
LinkCourseId(url) ==
    LET match == LinkMatch(url, 1)
    IN  IF match = None THEN None
        ELSE <<Upper(match[1][1]) \o <<" ">> \o Upper(match[1][2])>>

\* the length of the match of [A-Z]{4}[- ]?\d{3} at the position i of the text, 0 for none
CodeLengthAt(text, i) ==
    LET upper == i + 3 <= Len(text) /\ \A j \in i..(i + 3) : text[j] \in UpperSet
        digits(k) == k + 2 <= Len(text) /\ \A j \in k..(k + 2) : text[j] \in DigitSet
    IN  IF ~upper THEN 0
        ELSE IF i + 4 <= Len(text) /\ text[i + 4] \in {"-", " "} /\ digits(i + 5) THEN 8
        ELSE IF digits(i + 4) THEN 7
        ELSE 0

\* re.findall(r'([A-Z]{4}[- ]?\d{3})', text) from the position i on
RECURSIVE FindCourseCodes(_, _)
FindCourseCodes(text, i) ==
    IF i > Len(text) THEN <<>>
    ELSE IF CodeLengthAt(text, i) > 0
    THEN <<SubSeq(text, i, i + CodeLengthAt(text, i) - 1)>>
         \o FindCourseCodes(text, i + CodeLengthAt(text, i))
    ELSE FindCourseCodes(text, i + 1)

\* the edges of one kind into the course `dst`, one for each code of the text
Edges(text, dst, kind) ==
    LET codes == FindCourseCodes(text, 1)
    IN  [k \in DOMAIN codes |-> [src_course_id |-> codes[k], dst_course_id |-> dst, kind |-> kind]]

\* the edges of all the texts of a list, in order
RECURSIVE EdgesOfAll(_, _, _, _)
EdgesOfAll(texts, k, dst, kind) ==
    IF k > Len(texts) THEN <<>>
    ELSE Edges(texts[k], dst, kind) \o EdgesOfAll(texts, k + 1, dst, kind)

\* parse_course_page(html) of a course page
parse_course_page(html) ==
    LET id == HyphensToSpaces(html.code)
    IN  [id |-> id,
         title |-> html.title,
         description |-> html.description,
         credits |-> html.credits,
         offered_by |-> html.offered_by,
         offered_fall |-> html.offered_fall,
         offered_winter |-> html.offered_winter,
         offered_summer |-> html.offered_summer,
         prereq_edges |-> Edges(html.prerequisites, id, "prereq"),
         coreq_edges |-> EdgesOfAll(html.corequisites, 1, id, "coreq"),
         prereq_text |-> html.prerequisites,
         coreq_text |-> IF html.corequisites = <<>> THEN <<>>
                        ELSE html.corequisites[Len(html.corequisites)]]

\* session.get(Course, id) finds a row
HasCourse(rows, id) == \E k \in DOMAIN rows : rows[k].id = id

\* session.merge(course): the row with its id is overwritten, or the course is added
Merge(rows, course) ==
    IF HasCourse(rows, course.id)
    THEN [k \in DOMAIN rows |-> IF rows[k].id = course.id THEN course ELSE rows[k]]
    ELSE Append(rows, course)

\* src_course_id.split()[0]
FirstWord(s) ==
    LET spaces == {i \in DOMAIN s : s[i] = " "}
    IN  IF spaces = {} THEN s
        ELSE SubSeq(s, 1, (CHOOSE i \in spaces : \A j \in spaces : i <= j) - 1)

\* f"Placeholder for {src_course_id}"
PlaceholderTitle(src_course_id) ==
    <<"P","l","a","c","e","h","o","l","d","e","r"," ","f","o","r"," ">> \o src_course_id

\* the row save_course creates for a course it has only seen as the source of an edge;
\* the columns it does not give take their defaults
Placeholder(src_course_id) ==
    [id |-> src_course_id,
     title |-> PlaceholderTitle(src_course_id),
     description |-> <<"N","/","A">>,
     credits |-> 0,
     offered_by |-> FirstWord(src_course_id)
                    \o <<" ","D","e","p","a","r","t","m","e","n","t"," ","(","F","a","c","u","l","t","y"," ","p","l","a","c","e","h","o","l","d","e","r",")">>,
     offered_fall |-> FALSE, offered_winter |-> FALSE, offered_summer |-> FALSE,
     prereq_text |-> <<>>, coreq_text |-> <<>>]

\* the loop of save_course over the edges, from the k-th on
RECURSIVE EnsureSources(_, _, _)
EnsureSources(rows, edges, k) ==
    IF k > Len(edges) THEN rows
    ELSE EnsureSources(IF HasCourse(rows, edges[k].src_course_id) THEN rows
                       ELSE Merge(rows, Placeholder(edges[k].src_course_id)),
                       edges, k + 1)

\* save_course(session, course_data): the table after the commit
save_course(rows, course_data) ==
    LET course_details == [id |-> course_data.id,
                           title |-> course_data.title,
                           description |-> course_data.description,
                           credits |-> course_data.credits,
                           offered_by |-> course_data.offered_by,
                           offered_fall |-> course_data.offered_fall,
                           offered_winter |-> course_data.offered_winter,
                           offered_summer |-> course_data.offered_summer,
                           prereq_text |-> course_data.prereq_text,
                           coreq_text |-> course_data.coreq_text]
    IN  EnsureSources(Merge(rows, course_details),
                      course_data.prereq_edges \o course_data.coreq_edges, 1)

\* the page a link leads to
PageOf(url) == CataloguePages[CHOOSE k \in DOMAIN CataloguePages : CataloguePages[k].link = url]

\* the lists get_all_course_links can return: no course twice, any order
LinkLists ==
    LET lists == UNION {[1..n -> DOMAIN CataloguePages] : n \in 1..MaxLinks}
    IN  {[k \in DOMAIN pages |-> CataloguePages[pages[k]].link] :
         pages \in {l \in lists : \A i, j \in DOMAIN l : l[i] = l[j] => i = j}}

\* ------------------------------------------------------------------------
\* The state
\* ------------------------------------------------------------------------

VARIABLES
    store,              \* the courses table
    query,              \* the question asked
    pc,                 \* "start": nothing called yet; "done": the call has returned
    op,                 \* the function called
    title_to_id_cache,  \* _title_to_id_cache
    id_to_title_cache,  \* _id_to_title_cache
    duplicate_titles,   \* _duplicate_titles
    cache_loaded,       \* _cache_loaded
    result,             \* the list hybrid_search returned
    route,              \* the branch of hybrid_search that returned it
    planning,           \* the value of detect_planning_query (in hybrid_search: its local)
    course_id,          \* the course id extracted (in hybrid_search: its local)
    alternatives,       \* the alternatives that came with it
    semantic,           \* <<what semantic_search returned>>, None while it was not called
    previous,           \* what the calls before the current one returned, oldest first
    arguments,          \* the arguments of a call that takes more than the question
    returned,           \* the value returned by replace_aliases or get_available_courses
    threads,            \* the requests that run concurrently: for each its position in the
                        \* code and its locals
    vector_store_ready, \* vector_store_ready.is_set()
    startup,            \* where the startup of the server is (lifespan and its build thread)
    loop                \* the loop variable of the call that is running

vars == <<store, query, pc, op, title_to_id_cache, id_to_title_cache, duplicate_titles,
          cache_loaded, result, route, planning, course_id, alternatives, semantic,
          previous, arguments, returned, threads, vector_store_ready, startup, loop>>

caches == [title_to_id |-> title_to_id_cache, id_to_title |-> id_to_title_cache,
           duplicates |-> duplicate_titles, loaded |-> cache_loaded]

SetCaches(c) ==
    /\ title_to_id_cache' = c.title_to_id
    /\ id_to_title_cache' = c.id_to_title
    /\ duplicate_titles' = c.duplicates
    /\ cache_loaded' = c.loaded

\* a request that has not called find_course_by_title yet
NewThread == [pc |-> "call", courses |-> <<>>, k |-> 1, title_to_courses |-> <<>>,
              title |-> None, course_id |-> None, alternatives |-> None]

\* the state after import, the table being one of `stores`, the question one of `queries`,
\* the arguments of the call one of `args`, with `requests` concurrent requests
Start(stores, queries, args, requests) ==
    /\ threads = [t \in 1..requests |-> NewThread]
    /\ vector_store_ready = FALSE
    /\ startup = "import"
    /\ loop = 0
    /\ store \in stores
    /\ query \in queries
    /\ arguments \in args
    /\ pc = "start"
    /\ op = "None"
    /\ title_to_id_cache = <<>>
    /\ id_to_title_cache = <<>>
    /\ duplicate_titles = <<>>
    /\ cache_loaded = FALSE
    /\ result = <<>>
    /\ route = "None"
    /\ planning = None
    /\ course_id = None
    /\ alternatives = None
    /\ semantic = None
    /\ previous = <<>>
    /\ returned = None

Init == Start(Stores, Queries, {None}, 0)

Return(name) ==
    pc' = "done" /\ op' = name /\ UNCHANGED <<store, query, previous, arguments, threads,
                 vector_store_ready, startup, loop>>

\* return from hybrid_search by the branch `branch` with the list `list`; the other
\* arguments are the locals of the function and what semantic_search answered
HybridReturn(branch, list, p, cid, alts, c, sem) ==
    /\ Return("hybrid_search")
    /\ route' = branch
    /\ result' = list
    /\ planning' = p
    /\ course_id' = cid
    /\ alternatives' = alts
    /\ SetCaches(c)
    /\ semantic' = sem
    /\ returned' = returned

\* a variant whose planning branch returns its list even when it is empty
HybridSearch_emptyPlanning ==
    /\ pc = "start"
    /\ \E p \in {PlanningOf(query)} :
       \E courses \in {PlanningBranch(store, p)} :
         IF p # None /\ p[1].type # "None"
         THEN HybridReturn("planning", StructuralList(courses), p, None, None, caches, None)
         ELSE
           \E e \in {extract_course_id(query, store, caches)} :
           \E query_lower \in {Lower(query)} :
           \E course \in {IF is_asking_prereqs_for(e.course_id, query_lower)
                          THEN get_course_directly(store, e.course_id) ELSE None} :
             IF course # None
             THEN HybridReturn("prereqs_for",
                               <<WithClarification(Element(course[1].id, 0), e.alternatives)>>,
                               p, e.course_id, e.alternatives, e.cache, None)
             ELSE IF is_asking_what_requires(e.course_id, query_lower)
             THEN HybridReturn("reverse",
                               StructuralList(enrich_context(store,
                                                  get_courses_requiring(store, e.course_id))),
                               p, e.course_id, e.alternatives, e.cache, None)
             ELSE
               \E direct \in {DirectCourses(store, extract_all_course_ids(query))} :
                 IF direct # <<>>
                 THEN HybridReturn("direct", DirectList(direct, e.alternatives),
                                   p, e.course_id, e.alternatives, e.cache, None)
                 ELSE \E dept_courses \in {DeptCourses(store, p)} :
                      \E combined \in SemanticAnswers(store) :
                        HybridReturn("semantic", combined \o Injected(dept_courses, combined),
                                     p, e.course_id, e.alternatives, e.cache, <<combined>>)

\* hybrid_search(query): the branches in the order of the code
HybridSearch ==
    /\ pc = "start"
    /\ \E p \in {PlanningOf(query)} :
       \E courses \in {PlanningBranch(store, p)} :
         IF courses # <<>>
         THEN HybridReturn("planning", StructuralList(courses), p, None, None, caches, None)
         ELSE
           \E e \in {extract_course_id(query, store, caches)} :
           \E query_lower \in {Lower(query)} :
           \E course \in {IF is_asking_prereqs_for(e.course_id, query_lower)
                          THEN get_course_directly(store, e.course_id) ELSE None} :
             IF course # None
             THEN HybridReturn("prereqs_for",
                               <<WithClarification(Element(course[1].id, 0), e.alternatives)>>,
                               p, e.course_id, e.alternatives, e.cache, None)
             ELSE IF is_asking_what_requires(e.course_id, query_lower)
             THEN HybridReturn("reverse",
                               StructuralList(enrich_context(store,
                                                  get_courses_requiring(store, e.course_id))),
                               p, e.course_id, e.alternatives, e.cache, None)
             ELSE
               \E direct \in {DirectCourses(store, extract_all_course_ids(query))} :
                 IF direct # <<>>
                 THEN HybridReturn("direct", DirectList(direct, e.alternatives),
                                   p, e.course_id, e.alternatives, e.cache, None)
                 ELSE \E dept_courses \in {DeptCourses(store, p)} :
                      \E combined \in SemanticAnswers(store) :
                        HybridReturn("semantic", combined \o Injected(dept_courses, combined),
                                     p, e.course_id, e.alternatives, e.cache, <<combined>>)

\* detect_planning_query(query)
DetectPlanningQuery ==
    /\ pc = "start"
    /\ Return("detect_planning_query")
    /\ planning' = detect_planning_query(query)
    /\ UNCHANGED <<title_to_id_cache, id_to_title_cache, duplicate_titles, cache_loaded,
                   result, route, course_id, alternatives, semantic, returned>>

\* extract_course_id(query)
ExtractCourseId ==
    /\ pc = "start"
    /\ \E e \in {extract_course_id(query, store, caches)} :
           /\ Return("extract_course_id")
           /\ SetCaches(e.cache)
           /\ course_id' = e.course_id
           /\ alternatives' = e.alternatives
    /\ UNCHANGED <<result, route, planning, semantic, returned>>

\* find_course_by_title(query)
FindCourseByTitle ==
    /\ pc = "start"
    /\ \E loaded \in {load_title_cache(store, caches)} :
         \E found \in {find_course_by_title(query, loaded.title_to_id, loaded.duplicates)} :
           /\ Return("find_course_by_title")
           /\ SetCaches(loaded)
           /\ course_id' = found[1]
           /\ alternatives' = found[2]
    /\ UNCHANGED <<result, route, planning, semantic, returned>>

Next ==
    \/ HybridSearch
    \/ DetectPlanningQuery
    \/ ExtractCourseId
    \/ FindCourseByTitle

Spec == Init /\ [][Next]_vars

\* ------------------------------------------------------------------------
\* Properties
\* ------------------------------------------------------------------------

\* the call of `name` has returned
Done(name) == pc = "done" /\ op = name

\* "Should I take COMP 307 first year?"
q_Comp307FirstYear == <<"S","h","o","u","l","d"," ","I"," ","t","a","k","e"," ","C","O","M","P"," ","3","0","7"," ","f","i","r","s","t"," ","y","e","a","r","?">>

\* "What are the prerequisites for comp-250?"
q_PrereqsHyphen == <<"W","h","a","t"," ","a","r","e"," ","t","h","e"," ","p","r","e","r","e","q","u","i","s","i","t","e","s"," ","f","o","r"," ","c","o","m","p","-","2","5","0","?">>

\* "COMP 250"
s_COMP250 == <<"C","O","M","P"," ","2","5","0">>

\* "COMP 307"
s_COMP307 == <<"C","O","M","P"," ","3","0","7">>

\* the ids of the table
StoreIds == {store[k].id : k \in DOMAIN store}

\* the course-code-shaped tokens of the question, in order, as written
Codes == CourseIdFindAll(query)

\* the canonical form "DEPT NNN" of a token
CanonicalForm(m) == Upper(m.dept) \o <<" ">> \o Upper(m.num)

\* the tokens whose department is not in the deny-list
RealCodes == {k \in DOMAIN Codes : Upper(Codes[k].dept) \notin DEPT_FALSE_POSITIVES}

\* the title index of the table
TitleIndex == load_title_cache(store, caches)

\* what the question resolves to by title: <<course id, alternatives>>
ByTitle == find_course_by_title(query, TitleIndex.title_to_id, TitleIndex.duplicates)

\* C1: when hybrid_search is given a question with no course code whose text resolves
\* by title to a title shared by several courses, the first element of the returned list
\* has needs_clarification = TRUE and alternatives holding every course of that title.
C1_AmbiguousTitleAsksClarification ==
    (Done("hybrid_search") /\ Codes = <<>> /\ ByTitle[2] # None)
    => /\ result # <<>>
       /\ result[1].needs_clarification
       /\ Range(result[1].alternatives) = Range(ByTitle[2])

\* the department of a course id: the text before the space
DeptOf(id) == Split(id)[1]

\* C2: the primary course id that extract_course_id returns, and that hybrid_search uses
\* for the direct fetch and the reverse-prerequisite lookup, never has a department of the
\* deny-list.
C2_PrimaryIdNeverDenyListed ==
    ((Done("hybrid_search") \/ Done("extract_course_id")) /\ course_id # None)
    => DeptOf(course_id) \notin DEPT_FALSE_POSITIVES

\* C3: a question with at least one course code whose department is not deny-listed is
\* never answered from the planning branch: the planning detector is not consulted, no
\* planning list is returned, the semantic answer is returned as it came (nothing is
\* injected), and "Should I take COMP 307 first year?" is answered by the direct fetch
\* of COMP 307.
C3_SpecificCourseSkipsPlanning ==
    (Done("hybrid_search") /\ RealCodes # {})
    => /\ route # "planning"
       /\ planning = None
       /\ route = "semantic" => result = semantic[1]
       /\ (query = q_Comp307FirstYear /\ s_COMP307 \in StoreIds)
          => (route = "direct" /\ result = <<Element(s_COMP307, 0)>>)

C3_Witness ==
    /\ Done("hybrid_search")
    /\ query = q_Comp307FirstYear
    /\ RealCodes # {}
    /\ route = "direct"
    /\ result = <<Element(s_COMP307, 0)>>

\* the markers of the four types in the question
FirstSemesterMarker == AnySearch(first_semester_patterns, Lower(query))
AvailableMarker == AnySearch(available_patterns, Lower(query))
LevelMarker == LevelIsSet(ExtractLevel(Lower(query)))
RecommendationMarker == AnySearch(recommendation_patterns, Lower(query))

\* the type detect_planning_query returned, "None" when it returned None
ReturnedType == IF planning = None THEN "None" ELSE planning[1].type

\* C4: detect_planning_query assigns the type by the priority first_semester > available >
\* by_level > recommendation: the returned type is the first whose marker is in the
\* question; a first-semester marker with a recommendation marker gives first_semester,
\* a level with a recommendation marker (and no marker of higher priority) gives by_level.
C4_TypePriority ==
    Done("detect_planning_query")
    => /\ FirstSemesterMarker => ReturnedType = "first_semester"
       /\ (AvailableMarker /\ ~FirstSemesterMarker) => ReturnedType = "available"
       /\ (LevelMarker /\ ~FirstSemesterMarker /\ ~AvailableMarker) => ReturnedType = "by_level"
       /\ (RecommendationMarker /\ ~FirstSemesterMarker /\ ~AvailableMarker /\ ~LevelMarker)
          => ReturnedType = "recommendation"
       /\ (FirstSemesterMarker /\ RecommendationMarker) => ReturnedType # "recommendation"

C4_Witness ==
    /\ Done("detect_planning_query")
    /\ FirstSemesterMarker
    /\ RecommendationMarker
    /\ ReturnedType = "first_semester"

\* a completion word followed by two course codes, whatever the case of the letters:
\* (after|with|having|completed?|done|finished|took)\s+[a-z]{3,4}\s*\d{3}.+[a-z]{3,4}\s*\d{3}
\* on the question in lower case
completion_then_two_codes ==
    Cat(<<Alt(<<Lit(<<"a","f","t","e","r">>), Lit(<<"w","i","t","h">>), Lit(<<"h","a","v","i","n","g">>), Cat(<<Lit(<<"c","o","m","p","l","e","t","e">>), Opt(Lit(<<"d">>))>>), Lit(<<"d","o","n","e">>), Lit(<<"f","i","n","i","s","h","e","d">>), Lit(<<"t","o","o","k">>)>>), Plus(Cls(SpaceSet)), Cat(<<Cls(LowerSet), Cls(LowerSet), Cls(LowerSet), Opt(Cls(LowerSet))>>), Star(Cls(SpaceSet)), Cat(<<Cls(DigitSet), Cls(DigitSet), Cls(DigitSet)>>), Plus(Dot), Cat(<<Cls(LowerSet), Cls(LowerSet), Cls(LowerSet), Opt(Cls(LowerSet))>>), Star(Cls(SpaceSet)), Cat(<<Cls(DigitSet), Cls(DigitSet), Cls(DigitSet)>>)>>)

\* C5: a question in which a completion word is followed by at least two course codes,
\* such as "What's available after COMP 250 and MATH 133?", is of type available, and
\* completed holds every course code of the question in canonical form.
C5_CompletedCoursesAreAvailable ==
    (Done("detect_planning_query") /\ Search(completion_then_two_codes, Lower(query)))
    => /\ ReturnedType = "available"
       /\ planning[1].completed = extract_all_course_ids(query)

\* C6: detect_planning_query returns None for a question about one coded course that has
\* no marker of a planning type and names no term, such as "What is COMP 250 about?".
C6_CourseQuestionIsNotPlanning ==
    (/\ Done("detect_planning_query")
     /\ Len(Codes) = 1
     /\ ~FirstSemesterMarker /\ ~AvailableMarker /\ ~LevelMarker /\ ~RecommendationMarker
     /\ ExtractTerm(Lower(query)) = "None")
    => planning = None

\* C7: when hybrid_search answers through the planning branch, the first element of the
\* result carries is_planning_query = TRUE and planning_type, the detected type.
C7_PlanningResultIsFlagged ==
    (Done("hybrid_search") /\ route = "planning")
    => /\ result[1].is_planning_query
       /\ result[1].planning_type = planning[1].type

\* the entry-level courses of department D offered in the term (any term for "None")
EntryLevelIds(D, term) ==
    {store[k].id : k \in {j \in DOMAIN store : /\ IdLikeDepartment(store[j].id, D)
                                               /\ is_entry(store[j])
                                               /\ OfferedIn(store[j], term)}}

\* the number of a course id
CourseNumber(id) == get_course_num([id |-> id])

\* the list holds only courses of `ids`, at most 12, each with score 0.0, in ascending
\* order of course number
EntryLevelList(list, ids) ==
    /\ Len(list) <= 12
    /\ \A k \in DOMAIN list : list[k].course_id \in ids /\ list[k].score = 0
    /\ \A i, j \in DOMAIN list :
          i < j => CourseNumber(list[i].course_id) <= CourseNumber(list[j].course_id)

\* the planning detector returned type first_semester with a department
FirstSemesterOfDepartment ==
    /\ Done("hybrid_search")
    /\ planning # None
    /\ planning[1].type = "first_semester"
    /\ planning[1].department # None

\* C8: when the planning detector returns type first_semester with department D and D has
\* at least one entry-level course offered in the detected term (in any term when the
\* question names none), hybrid_search returns only such courses, at most 12, in ascending
\* order of course number, all with score 0.0, and semantic_search is not consulted.
C8_FirstSemesterListsEntryLevel ==
    (/\ FirstSemesterOfDepartment
     /\ EntryLevelIds(planning[1].department, planning[1].term) # {})
    => /\ route = "planning"
       /\ semantic = None
       /\ EntryLevelList(result, EntryLevelIds(planning[1].department, planning[1].term))

C8_Witness ==
    /\ FirstSemesterOfDepartment
    /\ planning[1].term = "fall"
    /\ Cardinality(EntryLevelIds(planning[1].department, "fall")) > 12
    /\ route = "planning"
    /\ Len(result) = 12

\* C8 without the term: at least one entry-level course of D exists
C8_AnyEntryLevelCourse ==
    (/\ FirstSemesterOfDepartment
     /\ EntryLevelIds(planning[1].department, "None") # {})
    => /\ route = "planning"
       /\ semantic = None
       /\ EntryLevelList(result, EntryLevelIds(planning[1].department, "None"))

\* the question has a prerequisites-for phrase
PrereqsForPhrase == AnyContains(prereqs_for_phrases, Lower(query))

\* C9: for a question with a prerequisites-for phrase whose first course-code-shaped token
\* X, written with a space, a hyphen or no separator, has a department outside the
\* deny-list and is a course of the table, hybrid_search returns exactly one element,
\* with the canonical form of X, score 0.0 and no needs_clarification.
C9_PrerequisitesForCode ==
    (/\ Done("hybrid_search")
     /\ PrereqsForPhrase
     /\ Codes # <<>>
     /\ 1 \in RealCodes
     /\ CanonicalForm(Codes[1]) \in StoreIds)
    => result = <<Element(CanonicalForm(Codes[1]), 0)>>

C9_Witness ==
    /\ Done("hybrid_search")
    /\ query = q_PrereqsHyphen
    /\ PrereqsForPhrase
    /\ route = "prereqs_for"
    /\ result = <<Element(s_COMP250, 0)>>

\* C9 for every code of the question that is a course of the table
C9_AnyCodeOfTheQuestion ==
    (Done("hybrid_search") /\ PrereqsForPhrase)
    => \A k \in DOMAIN Codes :
          CanonicalForm(Codes[k]) \in StoreIds
          => result = <<Element(CanonicalForm(Codes[k]), 0)>>

\* the courses of the table that have the normalized title t
Sharing(t) ==
    {store[k].id : k \in {j \in DOMAIN store : /\ store[j].title # <<>>
                                               /\ normalize_title(store[j].title) = t}}

\* the answer <<course id, alternatives>> for a title that Sharing(t) calls for
AnswerFor(t, answer) ==
    /\ Cardinality(Sharing(t)) = 1 => answer[2] = None
    /\ Cardinality(Sharing(t)) > 1 => /\ Len(answer[2]) >= 2
                                      /\ Range(answer[2]) = Sharing(t)
                                      /\ answer[1] \in Range(answer[2])

\* C10: once the title index is built, a question matched to a title that exactly one
\* course has gets alternatives = None; matched to a title that several courses have, it
\* gets alternatives of length at least 2 that are exactly the courses of that title and
\* contain the default course returned.
C10_AlternativesAreTheSharingCourses ==
    (Done("find_course_by_title") /\ course_id # None)
    => /\ cache_loaded
       /\ AnswerFor(MatchedTitle(query, title_to_id_cache)[1], <<course_id, alternatives>>)

C10_Witness ==
    /\ Done("find_course_by_title")
    /\ cache_loaded
    /\ course_id # None
    /\ Cardinality(Sharing(MatchedTitle(query, title_to_id_cache)[1])) = 2
    /\ Len(alternatives) = 2

\* ------------------------------------------------------------------------
\* The same question asked again
\* ------------------------------------------------------------------------

\* the most calls of one session
MaxCalls == 2

\* how the questions asked again open
RepeatOpenings == {
    \* "What courses require "
    <<"W","h","a","t"," ","c","o","u","r","s","e","s"," ","r","e","q","u","i","r","e"," ">>,
    \* "Tell me about "
    <<"T","e","l","l"," ","m","e"," ","a","b","o","u","t"," ">>
}

\* the questions asked again: a code, two codes, a shared title, a department
RepeatQueries == {o \o s \o <<"?">> : o \in RepeatOpenings, s \in Subjects}

\* what the call that has returned answered
Answered == [op |-> op, course_id |-> course_id, alternatives |-> alternatives,
             result |-> result, route |-> route]

\* the caller asks again: the module-level caches stay as the last call left them,
\* the table is unchanged
CallAgain ==
    /\ pc = "done"
    /\ Len(previous) + 1 < MaxCalls
    /\ pc' = "start"
    /\ previous' = Append(previous, Answered)
    /\ UNCHANGED <<store, query, op, title_to_id_cache, id_to_title_cache, duplicate_titles,
                   cache_loaded, result, route, planning, course_id, alternatives, semantic,
                   arguments, returned, threads,
                   vector_store_ready, startup, loop>>

InitRepeat == Start({CoreRows(TRUE)}, RepeatQueries, {None}, 0)

NextRepeat ==
    \/ FindCourseByTitle
    \/ HybridSearch
    \/ CallAgain

SpecRepeat == InitRepeat /\ [][NextRepeat]_vars

\* the earlier calls of the function that has just returned
EarlierCalls == {k \in DOMAIN previous : pc = "done" /\ previous[k].op = op}

\* C11: find_course_by_title called again with the same question over an unchanged table
\* returns the same (course_id, alternatives), the first call being the one that builds
\* the title index and the later ones reading it.
C11_TitleResolutionIdempotent ==
    Done("find_course_by_title")
    => \A k \in EarlierCalls : /\ previous[k].course_id = course_id
                               /\ previous[k].alternatives = alternatives

C11_Witness ==
    /\ Done("find_course_by_title")
    /\ EarlierCalls # {}
    /\ cache_loaded
    /\ previous[1].alternatives # None
    /\ alternatives = previous[1].alternatives

\* ------------------------------------------------------------------------
\* Course nicknames: the call and its properties
\* ------------------------------------------------------------------------

\* replace_aliases(query)
ReplaceAliases ==
    /\ pc = "start"
    /\ Return("replace_aliases")
    /\ returned' = replace_aliases(query)
    /\ UNCHANGED <<title_to_id_cache, id_to_title_cache, duplicate_titles, cache_loaded,
                   result, route, planning, course_id, alternatives, semantic>>

SpecAliases == Start({<<>>}, AliasQueries, {None}, 0) /\ [][ReplaceAliases]_vars

\* the question holds the nickname between word boundaries, in any letter case
HoldsAlias(alias) == \E i \in 1..Len(query) : AliasAt(query, alias, i)

\* C12: for every nickname A of code C and every question that holds A between word
\* boundaries in any letter case, replace_aliases returns a string that holds C verbatim
\* (so a longer nickname is never consumed by a shorter one of another code).
C12_AliasBecomesItsCode ==
    Done("replace_aliases")
    => \A k \in DOMAIN COURSE_ALIASES :
          HoldsAlias(COURSE_ALIASES[k][1]) => Contains(returned, COURSE_ALIASES[k][2])

\* ------------------------------------------------------------------------
\* Course codes in every spelling
\* ------------------------------------------------------------------------

\* C13: for a question that holds one course id (a code-shaped token whose department is
\* not in the deny-list), written with a space, a hyphen or no separator and in any letter
\* case, extract_course_id returns that id in canonical form with alternatives = None.
C13_CanonicalIdWhateverTheSpelling ==
    (Done("extract_course_id") /\ Cardinality(RealCodes) = 1)
    => \A k \in RealCodes : /\ course_id = CanonicalForm(Codes[k])
                            /\ alternatives = None

\* ------------------------------------------------------------------------
\* The reverse-prerequisite lookup
\* ------------------------------------------------------------------------

\* the course ids of a list of results
IdsOf(list) == {list[k].course_id : k \in DOMAIN list}

\* no course id comes twice in the list
NoRepeatedId(list) == \A i, j \in DOMAIN list : list[i].course_id = list[j].course_id => i = j

\* C14: the list hybrid_search returns for a "what requires X" question holds each course
\* id at most once, and the same question asked again over an unchanged table is answered
\* by the same lookup with the same set of course ids.
C14_ReverseLookupRepeatable ==
    Done("hybrid_search")
    => /\ route = "reverse" => NoRepeatedId(result)
       /\ \A k \in EarlierCalls :
             (previous[k].route = "reverse" \/ route = "reverse")
             => /\ previous[k].route = route
                /\ IdsOf(previous[k].result) = IdsOf(result)

C14_Witness ==
    /\ Done("hybrid_search")
    /\ route = "reverse"
    /\ EarlierCalls # {}
    /\ previous[1].route = "reverse"
    /\ Len(result) >= 2
    /\ course_id = s_COMP250

\* ------------------------------------------------------------------------
\* The semantic fallback
\* ------------------------------------------------------------------------

\* the result mixes hits of the similarity index with injected department courses
MixedResult ==
    /\ Done("hybrid_search")
    /\ route = "semantic"
    /\ semantic[1] # <<>>
    /\ Len(result) > Len(semantic[1])

\* the k-th element of the result is a hit of the similarity index
SemanticEntry(k) == result[k] \in Range(semantic[1])

\* C15: in a result that mixes structural and semantic entries, every structural entry
\* precedes every semantic entry, and the semantic entries are in ascending order of
\* distance.
C15_StructuralBeforeSemantic ==
    MixedResult
    => \A i, j \in DOMAIN result :
          /\ (~SemanticEntry(i) /\ SemanticEntry(j)) => i < j
          /\ (SemanticEntry(i) /\ SemanticEntry(j) /\ i < j) => result[i].score <= result[j].score

\* ------------------------------------------------------------------------
\* Routes that find nothing
\* ------------------------------------------------------------------------

\* the planning detector gave a type and the fetch of that type found no course
PlanningFoundNothing ==
    /\ planning # None
    /\ planning[1].type # "None"
    /\ PlanningCourses(store, planning[1]) = <<>>

\* the question has course codes and none of them is a course of the table
NoCodeInTable ==
    /\ Codes # <<>>
    /\ \A k \in DOMAIN Codes : CanonicalForm(Codes[k]) \notin StoreIds

ReverseIntent == is_asking_what_requires(CanonicalForm(Codes[1]), Lower(query))

MaxRequests == 2

\* a variant in which a build begins by emptying the module-level dicts
BuildStart_cleared(c) ==
    [title_to_id |-> <<>>, id_to_title |-> <<>>, duplicates |-> <<>>, loaded |-> c.loaded]

\* global _title_to_id_cache, _id_to_title_cache, _duplicate_titles: a build writes into
\* the module-level dicts as it finds them
BuildStart(c) == c

\* what a step of a request leaves alone
OnlyThreadsAndCaches ==
    UNCHANGED <<store, query, pc, op, result, route, planning, course_id, alternatives,
                semantic, previous, arguments, returned, vector_store_ready, startup, loop>>

\* request t enters find_course_by_title, which calls _load_title_cache():
\* if _cache_loaded: return
CheckLoaded(t) ==
    /\ threads[t].pc = "call"
    /\ threads' = [threads EXCEPT ![t].pc = IF cache_loaded THEN "lookup" ELSE "query"]
    /\ SetCaches(IF cache_loaded THEN caches ELSE BuildStart(caches))
    /\ OnlyThreadsAndCaches

\* title_to_courses = {}; courses = session.query(Course.id, Course.title).all()
\* (the table is unchanged: every build is given its rows in the same order)
QueryCourses(t) ==
    /\ threads[t].pc = "query"
    /\ threads' = [threads EXCEPT ![t].pc = "first", ![t].courses = store, ![t].k = 1,
                                  ![t].title_to_courses = <<>>]
    /\ UNCHANGED <<title_to_id_cache, id_to_title_cache, duplicate_titles, cache_loaded>>
    /\ OnlyThreadsAndCaches

\* first pass, one row: title_to_courses[normalized].append(course_id) and
\* _id_to_title_cache[course_id] = title; after the last row the second pass begins
FirstPassRow(t) ==
    /\ threads[t].pc = "first"
    /\ LET th == threads[t]
           row == <<th.courses[th.k]>>
       IN  IF th.k > Len(th.courses)
           THEN /\ threads' = [threads EXCEPT ![t].pc = "second", ![t].k = 1]
                /\ UNCHANGED id_to_title_cache
           ELSE /\ threads' = [threads EXCEPT
                                 ![t].k = th.k + 1,
                                 ![t].title_to_courses = TitleToCourses(row, 1, th.title_to_courses)]
                /\ id_to_title_cache' = IdToTitle(row, 1, id_to_title_cache)
    /\ UNCHANGED <<title_to_id_cache, duplicate_titles, cache_loaded>>
    /\ OnlyThreadsAndCaches

\* second pass, one title: a title of several courses is first written to
\* _duplicate_titles, a title of one course to _title_to_id_cache; after the last title
\* the index is to be marked as loaded
SecondPassTitle(t) ==
    /\ threads[t].pc = "second"
    /\ LET th == threads[t]
           group == th.title_to_courses[th.k]
       IN  IF th.k > Len(th.title_to_courses)
           THEN /\ threads' = [threads EXCEPT ![t].pc = "mark"]
                /\ UNCHANGED <<title_to_id_cache, duplicate_titles>>
           ELSE IF Len(group[2]) > 1
           THEN /\ duplicate_titles' = DictSet(duplicate_titles, group[1], group[2])
                /\ threads' = [threads EXCEPT ![t].pc = "default"]
                /\ UNCHANGED title_to_id_cache
           ELSE /\ title_to_id_cache' = DictSet(title_to_id_cache, group[1], group[2][1])
                /\ threads' = [threads EXCEPT ![t].k = th.k + 1]
                /\ UNCHANGED duplicate_titles
    /\ UNCHANGED <<id_to_title_cache, cache_loaded>>
    /\ OnlyThreadsAndCaches

\* second pass, a title of several courses: _title_to_id_cache[normalized] = the default
WriteDefault(t) ==
    /\ threads[t].pc = "default"
    /\ LET th == threads[t]
           group == th.title_to_courses[th.k]
       IN  /\ title_to_id_cache' = DictSet(title_to_id_cache, group[1], DefaultCourse(group[2]))
           /\ threads' = [threads EXCEPT ![t].pc = "second", ![t].k = th.k + 1]
    /\ UNCHANGED <<id_to_title_cache, duplicate_titles, cache_loaded>>
    /\ OnlyThreadsAndCaches

\* _cache_loaded = True
MarkLoaded(t) ==
    /\ threads[t].pc = "mark"
    /\ cache_loaded' = TRUE
    /\ threads' = [threads EXCEPT ![t].pc = "lookup"]
    /\ UNCHANGED <<title_to_id_cache, id_to_title_cache, duplicate_titles>>
    /\ OnlyThreadsAndCaches

\* back in find_course_by_title: the three matching steps over _title_to_id_cache;
\* without a match the request returns (None, None)
MatchTitle(t) ==
    /\ threads[t].pc = "lookup"
    /\ \E title \in {MatchedTitle(query, title_to_id_cache)} :
         threads' = [threads EXCEPT ![t].pc = IF title = None THEN "done" ELSE "check",
                                    ![t].title = title]
    /\ UNCHANGED <<title_to_id_cache, id_to_title_cache, duplicate_titles, cache_loaded>>
    /\ OnlyThreadsAndCaches

\* check_ambiguous(title) reads _title_to_id_cache[title] and _duplicate_titles; a title
\* that is no longer a key raises KeyError
CheckAmbiguous(t) ==
    /\ threads[t].pc = "check"
    /\ \E found \in {IF DictHas(title_to_id_cache, threads[t].title[1])
                     THEN check_ambiguous(title_to_id_cache, duplicate_titles,
                                          threads[t].title[1])
                     ELSE <<"KeyError", None>>} :
         threads' = [threads EXCEPT ![t].pc = "done", ![t].course_id = found[1],
                                    ![t].alternatives = found[2]]
    /\ UNCHANGED <<title_to_id_cache, id_to_title_cache, duplicate_titles, cache_loaded>>
    /\ OnlyThreadsAndCaches

NextRace ==
    \E t \in DOMAIN threads :
        \/ CheckLoaded(t)
        \/ QueryCourses(t)
        \/ FirstPassRow(t)
        \/ SecondPassTitle(t)
        \/ WriteDefault(t)
        \/ MarkLoaded(t)
        \/ MatchTitle(t)
        \/ CheckAmbiguous(t)

\* the questions of the concurrent requests: a title shared by two courses, the title of
\* one course, a course code
RaceQueries == {
    \* "Tell me about Operating Systems?"
    <<"T","e","l","l"," ","m","e"," ","a","b","o","u","t"," ","O","p","e","r","a","t","i","n","g"," ","S","y","s","t","e","m","s","?">>,
    \* "Tell me about Foundations of Programming?"
    <<"T","e","l","l"," ","m","e"," ","a","b","o","u","t"," ","F","o","u","n","d","a","t","i","o","n","s"," ","o","f"," ","P","r","o","g","r","a","m","m","i","n","g","?">>,
    \* "Tell me about COMP 250?"
    <<"T","e","l","l"," ","m","e"," ","a","b","o","u","t"," ","C","O","M","P"," ","2","5","0","?">>
}

\* the requests ask the same question over a table with a title shared by two courses
SpecRace ==
    Start({Take(CoreRows(TRUE), 4)}, RaceQueries, {None}, MaxRequests) /\ [][NextRace]_vars

\* the index a single build makes of the table
SequentialIndex ==
    load_title_cache(store, [title_to_id |-> <<>>, id_to_title |-> <<>>,
                             duplicates |-> <<>>, loaded |-> FALSE])

\* what a request is answered after that build
SequentialAnswer ==
    find_course_by_title(query, SequentialIndex.title_to_id, SequentialIndex.duplicates)

\* C18: requests that call find_course_by_title concurrently before _cache_loaded is set,
\* over an unchanged table, are each answered as after a single sequential build; no
\* request matches against a partially built index; and when all have returned the index
\* is the sequentially built one.
C18_RacingBuildsConverge ==
    \A t \in DOMAIN threads :
        /\ threads[t].pc \in {"lookup", "check", "done"}
           => /\ title_to_id_cache = SequentialIndex.title_to_id
              /\ duplicate_titles = SequentialIndex.duplicates
        /\ threads[t].pc = "done"
           => <<threads[t].course_id, threads[t].alternatives>> = SequentialAnswer
        /\ (\A u \in DOMAIN threads : threads[u].pc = "done") => caches = SequentialIndex

C18_Witness ==
    /\ \E t, u \in DOMAIN threads :
          /\ threads[t].pc = "done"
          /\ threads[t].alternatives # None
          /\ threads[u].pc = "default"
          /\ threads[u].courses # <<>>
    /\ cache_loaded

\* ------------------------------------------------------------------------
\* Courses available after the completed ones
\* ------------------------------------------------------------------------

\* the longest completed_courses list given to get_available_courses
MaxCompleted == 2

\* the arguments of get_available_courses: lists of up to MaxCompleted different ids (one
\* of them in lower case with blanks around), a department or none, a term or none, the
\* default limit or a small one
AvailableArguments ==
    LET ids == {
            \* "COMP 250"
            <<"C","O","M","P"," ","2","5","0">>,
            \* "COMP 206"
            <<"C","O","M","P"," ","2","0","6">>,
            \* "COMP 202"
            <<"C","O","M","P"," ","2","0","2">>,
            \* " comp 273 "
            <<" ","c","o","m","p"," ","2","7","3"," ">>,
            \* "MATH 240"
            <<"M","A","T","H"," ","2","4","0">>}
    IN  [completed_courses : {l \in UNION {[1..n -> ids] : n \in 0..MaxCompleted} :
                                \A i, j \in DOMAIN l : i # j => l[i] # l[j]},
         department : {None, <<"c","o","m","p">>, <<"M","A","T","H">>},
         term : {"None", "fall", "winter"},
         limit : {15, 2}]

\* get_available_courses(completed_courses, department, term, limit)
GetAvailableCourses ==
    /\ pc = "start"
    /\ Return("get_available_courses")
    /\ returned' = get_available_courses(store, arguments.completed_courses,
                                         arguments.department, arguments.term, arguments.limit)
    /\ UNCHANGED <<title_to_id_cache, id_to_title_cache, duplicate_titles, cache_loaded,
                   result, route, planning, course_id, alternatives, semantic>>

SpecAvailable ==
    Start({CoreRows(TRUE), CoreRows(FALSE)}, {<<>>}, AvailableArguments, 0)
        /\ [][GetAvailableCourses]_vars

\* the course codes mentioned in a prerequisite text, as ids
CodesMentioned(prereq_text) ==
    LET codes == PrereqCodeFindAll(Upper(prereq_text))
    IN  {codes[k].dept \o <<" ">> \o codes[k].num : k \in DOMAIN codes}

\* the completed courses of the call, in upper case without surrounding blanks
CompletedSet ==
    {Strip(Upper(arguments.completed_courses[k])) : k \in DOMAIN arguments.completed_courses}

\* C19: every course returned by get_available_courses either has no prerequisite text
\* or has every course code mentioned in its prerequisite text among completed_courses.
C19_AvailableMeansAllPrerequisitesMet ==
    Done("get_available_courses")
    => \A k \in DOMAIN returned :
          \/ Strip(returned[k].prereq_text) = <<>>
          \/ CodesMentioned(returned[k].prereq_text) \subseteq CompletedSet

\* ------------------------------------------------------------------------
\* The order in which the table returns its rows
\* ------------------------------------------------------------------------

\* the most rows of a table whose orders are all tried
MaxRows == 5

\* The tables: MaxRows courses, or all but one of them, in every row order (the query of
\* _load_title_cache has no ORDER BY).  Three courses share the title "Operating Systems",
\* two of them in COMP (COMP 311 is one more course of that title); two outside COMP share
\* "Statistics".
RowOrders ==
    LET courses == <<[id |-> <<"C","O","M","P"," ","3","1","1">>,
                      title |-> <<"O","p","e","r","a","t","i","n","g"," ","s","y","s","t","e","m","s">>,
                      prereq_text |-> <<>>,
                      offered_fall |-> TRUE, offered_winter |-> FALSE, offered_summer |-> FALSE],
                     CoreRows(TRUE)[2], CoreRows(TRUE)[1], CoreRows(TRUE)[9],
                     CoreRows(TRUE)[10], CoreRows(TRUE)[3]>>
        pool == {courses[k] : k \in 1..MaxRows}
    IN  {rows \in UNION {[1..n -> pool] : n \in (MaxRows - 1)..MaxRows} :
           \A i, j \in DOMAIN rows : i # j => rows[i] # rows[j]}

\* find_course_by_title on a process that has just started, over each of the tables
SpecRowOrder ==
    Start(RowOrders, {
              \* "Tell me about Operating Systems?"
              <<"T","e","l","l"," ","m","e"," ","a","b","o","u","t"," ","O","p","e","r","a","t","i","n","g"," ","S","y","s","t","e","m","s","?">>,
              \* "Tell me about Statistics?"
              <<"T","e","l","l"," ","m","e"," ","a","b","o","u","t"," ","S","t","a","t","i","s","t","i","c","s","?">>},
          {None}, 0)
        /\ [][FindCourseByTitle]_vars

\* the index built from the same courses returned in the order of their ids
IndexInIdOrder ==
    load_title_cache(SortBy(store, IdOf, StrLess),
                     [title_to_id |-> <<>>, id_to_title |-> <<>>, duplicates |-> <<>>,
                      loaded |-> FALSE])

\* C20: for a normalized title shared by several courses the default course id of the
\* index depends only on the set of courses and not on the order of the rows: the build
\* over the rows in the order returned chooses the default that the build over the same
\* courses in id order chooses, so any two row orders give the same default.
C20_DefaultIndependentOfRowOrder ==
    Done("find_course_by_title")
    => \A t \in DictKeys(duplicate_titles) :
          DictGet(title_to_id_cache, t) = DictGet(IndexInIdOrder.title_to_id, t)

\* ------------------------------------------------------------------------
\* The three strategies of title matching
\* ------------------------------------------------------------------------

\* how the title questions open
TitleOpenings == {
    \* ""
    <<>>,
    \* "Tell me about "
    <<"T","e","l","l"," ","m","e"," ","a","b","o","u","t"," ">>,
    \* "Is "
    <<"I","s"," ">>,
    \* "What courses require "
    <<"W","h","a","t"," ","c","o","u","r","s","e","s"," ","r","e","q","u","i","r","e"," ">>
}

\* what they are about: whole titles, a title inside another title, parts of titles, a
\* title of fewer than 5 characters, a part of fewer than 5 characters, no title
TitleSubjects == {
    \* "Algorithms and Data Structures"
    <<"A","l","g","o","r","i","t","h","m","s"," ","a","n","d"," ","D","a","t","a"," ","S","t","r","u","c","t","u","r","e","s">>,
    \* "Data Structures"
    <<"D","a","t","a"," ","S","t","r","u","c","t","u","r","e","s">>,
    \* "Operating Systems"
    <<"O","p","e","r","a","t","i","n","g"," ","S","y","s","t","e","m","s">>,
    \* "Statistics"
    <<"S","t","a","t","i","s","t","i","c","s">>,
    \* "Logic"
    <<"L","o","g","i","c">>,
    \* "structures"
    <<"s","t","r","u","c","t","u","r","e","s">>,
    \* "Operating"
    <<"O","p","e","r","a","t","i","n","g">>,
    \* "Data"
    <<"D","a","t","a">>,
    \* "Quantum Physics"
    <<"Q","u","a","n","t","u","m"," ","P","h","y","s","i","c","s">>,
    \* ""
    <<>>
}

\* how they end
TitleEndings == {
    \* ""
    <<>>,
    \* "?"
    <<"?">>,
    \* " offered?"
    <<" ","o","f","f","e","r","e","d","?">>
}

\* the catalogue with two more courses: "Data Structures", a title inside the title
\* "Algorithms and Data Structures", and "Logic", a title of exactly 5 characters; they
\* come last or first in the table
TitleStores ==
    LET more == <<[id |-> <<"C","O","M","P"," ","2","5","2">>,
                   title |-> <<"D","a","t","a"," ","S","t","r","u","c","t","u","r","e","s">>,
                   prereq_text |-> <<>>,
                   offered_fall |-> TRUE, offered_winter |-> FALSE, offered_summer |-> FALSE],
                  [id |-> <<"M","A","T","H"," ","3","1","8">>,
                   title |-> <<"L","o","g","i","c">>,
                   prereq_text |-> <<>>,
                   offered_fall |-> TRUE, offered_winter |-> FALSE, offered_summer |-> FALSE]>>
    IN  {CoreRows(TRUE) \o more, more \o CoreRows(TRUE)}

\* find_course_by_title on a process that has just started, for each title question
SpecTitles ==
    Start(TitleStores, {o \o s \o e : o \in TitleOpenings, s \in TitleSubjects, e \in TitleEndings},
          {None}, 0)
        /\ [][FindCourseByTitle]_vars

\* the indexed titles
IndexedTitles == DictKeys(title_to_id_cache)

\* strategy 1 matches: the cleaned query is an indexed title
ExactTitle == CleanedQuery(query) \in IndexedTitles

\* strategy 2 matches with these: the indexed titles of at least 5 characters that the
\* normalized query contains
TitlesInQuery ==
    {t \in IndexedTitles : Len(t) >= 5 /\ Contains(normalize_title(Strip(Lower(query))), t)}

\* strategy 3 matches with these: the indexed titles that contain the cleaned query, the
\* cleaned query having at least 5 characters
TitlesAroundQuery ==
    {t \in IndexedTitles : Len(CleanedQuery(query)) >= 5 /\ Contains(t, CleanedQuery(query))}

\* the call returned the course and the alternatives of the indexed title t
ResolvedTo(t) ==
    <<course_id, alternatives>> = check_ambiguous(title_to_id_cache, duplicate_titles, t)

\* C21: find_course_by_title returns the answer of the cleaned query when that is an
\* indexed title; otherwise that of a longest indexed title of at least 5 characters
\* contained in the normalized query (never one with a strictly longer one also
\* contained); otherwise that of an indexed title containing the cleaned query of at
\* least 5 characters; otherwise (None, None).  The first strategy that matches decides.
C21_FirstMatchingStrategyDecides ==
    Done("find_course_by_title")
    => /\ ExactTitle => ResolvedTo(CleanedQuery(query))
       /\ (~ExactTitle /\ TitlesInQuery # {})
          => \E t \in TitlesInQuery : /\ ResolvedTo(t)
                                      /\ \A u \in TitlesInQuery : Len(u) <= Len(t)
       /\ (~ExactTitle /\ TitlesInQuery = {} /\ TitlesAroundQuery # {})
          => \E t \in TitlesAroundQuery : ResolvedTo(t)
       /\ (~ExactTitle /\ TitlesInQuery = {} /\ TitlesAroundQuery = {})
          => (course_id = None /\ alternatives = None)

\* a question that holds a title and a longer title around it, and is neither
C21_Witness ==
    /\ Done("find_course_by_title")
    /\ ~ExactTitle
    /\ \E t, u \in TitlesInQuery : Len(t) < Len(u)
    /\ course_id = <<"C","O","M","P"," ","2","5","1">>

\* ------------------------------------------------------------------------
\* The kind of prerequisite question: the call and its properties
\* ------------------------------------------------------------------------

\* detect_query_type(query)
DetectQueryType ==
    /\ pc = "start"
    /\ Return("detect_query_type")
    /\ returned' = detect_query_type(query)
    /\ UNCHANGED <<title_to_id_cache, id_to_title_cache, duplicate_titles, cache_loaded,
                   result, route, planning, course_id, alternatives, semantic>>

SpecQueryType == Start({<<>>}, QueryTypeQuestions, {None}, 0) /\ [][DetectQueryType]_vars

\* the lower-cased question matches a prerequisite-chain pattern
MatchesChain == \E k \in DOMAIN prereq_chain_patterns : Search(prereq_chain_patterns[k], Lower(query))

\* the lower-cased question matches a reverse-prerequisite pattern
MatchesReverse == \E k \in DOMAIN reverse_patterns : Search(reverse_patterns[k], Lower(query))

\* C22: detect_query_type answers prereq_chain for every question that matches a
\* prerequisite-chain pattern, even if it also matches a reverse pattern; reverse_prereq
\* for a question that matches reverse patterns only; prereq for one that matches neither.
C22_ChainBeforeReverse ==
    Done("detect_query_type")
    => /\ MatchesChain => returned = "prereq_chain"
       /\ (~MatchesChain /\ MatchesReverse) => returned = "reverse_prereq"
       /\ (~MatchesChain /\ ~MatchesReverse) => returned = "prereq"

\* a question that matches a pattern of each kind
C22_Witness ==
    /\ Done("detect_query_type")
    /\ MatchesChain
    /\ MatchesReverse
    /\ returned = "prereq_chain"

\* ------------------------------------------------------------------------
\* The two intents of a question about a course
\* ------------------------------------------------------------------------

\* C23: in hybrid_search "prerequisites FOR X" and "what requires X" are never both true,
\* for the course id of the call and for any other, and a question whose lower-cased text
\* contains "for" is never answered by the reverse-prerequisite lookup.
C23_IntentsNeverCollide ==
    Done("hybrid_search")
    => /\ \A cid \in {course_id, s_COMP250} :
             ~(/\ is_asking_prereqs_for(cid, Lower(query))
               /\ is_asking_what_requires(cid, Lower(query)))
       /\ Contains(Lower(query), s_for) => route # "reverse"

\* a question about a course of the table with "need" and "for" in it
C23_Witness ==
    /\ Done("hybrid_search")
    /\ course_id # None
    /\ AnyContains(what_requires_phrases, Lower(query))
    /\ is_asking_prereqs_for(course_id, Lower(query))
    /\ route = "prereqs_for"

\* ------------------------------------------------------------------------
\* Questions that name course codes without a prerequisite intent
\* ------------------------------------------------------------------------

\* the codes the question mentions, in canonical form
MentionedIds == {CanonicalForm(Codes[k]) : k \in DOMAIN Codes}

\* where the question mentions the code first
FirstMention(id) == Min({k \in DOMAIN Codes : CanonicalForm(Codes[k]) = id})

\* the question has the words of neither intent
NoPrerequisiteIntent ==
    /\ ~AnyContains(prereqs_for_phrases, Lower(query))
    /\ ~(AnyContains(what_requires_phrases, Lower(query)) /\ ~Contains(Lower(query), s_for))

\* C24: when the question mentions course codes, has neither the prerequisites-for nor
\* the what-requires intent and is not answered by the planning branch, hybrid_search
\* returns one element per distinct mentioned code that exists in the table, in the order
\* of first mention, each with score 0; codes not in the table are skipped, and the
\* semantic search runs only if none of the mentioned codes exists.
C24_OneElementPerMentionedCode ==
    (Done("hybrid_search") /\ Codes # <<>> /\ NoPrerequisiteIntent /\ route # "planning")
    => IF MentionedIds \cap StoreIds # {}
       THEN /\ route = "direct"
            /\ semantic = None
            /\ IdsOf(result) = MentionedIds \cap StoreIds
            /\ NoRepeatedId(result)
            /\ \A k \in DOMAIN result : result[k].score = 0
            /\ \A i, j \in DOMAIN result :
                  i < j => FirstMention(result[i].course_id) < FirstMention(result[j].course_id)
       ELSE route = "semantic" /\ semantic # None

\* a question that names two courses of the table
C24_Witness ==
    /\ Done("hybrid_search")
    /\ NoPrerequisiteIntent
    /\ Cardinality(MentionedIds \cap StoreIds) = 2
    /\ route = "direct"
    /\ Len(result) = 2

\* ------------------------------------------------------------------------
\* The table changes after the title index was built
\* ------------------------------------------------------------------------

\* the table when the process starts
FrameRows == Take(CoreRows(TRUE), 4)

\* a course that is added later
AddedCourse ==
    [id |-> <<"C","O","M","P"," ","4","0","9">>,
     title |-> <<"Q","u","a","n","t","u","m"," ","C","o","m","p","u","t","i","n","g">>,
     prereq_text |-> <<>>,
     offered_fall |-> TRUE, offered_winter |-> FALSE, offered_summer |-> FALSE]

\* the title COMP 202 is given later
NewTitle == <<"P","r","o","g","r","a","m","m","i","n","g"," ","B","a","s","i","c","s">>

\* the questions: by a title two courses share, by the first title of COMP 202, by the
\* title of the added course, by the later title of COMP 202
FrameQueries == {
    \* "Tell me about Operating Systems?"
    <<"T","e","l","l"," ","m","e"," ","a","b","o","u","t"," ","O","p","e","r","a","t","i","n","g"," ","S","y","s","t","e","m","s","?">>,
    \* "Tell me about Foundations of Programming?"
    <<"T","e","l","l"," ","m","e"," ","a","b","o","u","t"," ","F","o","u","n","d","a","t","i","o","n","s"," ","o","f"," ","P","r","o","g","r","a","m","m","i","n","g","?">>,
    \* "Tell me about Quantum Computing?"
    <<"T","e","l","l"," ","m","e"," ","a","b","o","u","t"," ","Q","u","a","n","t","u","m"," ","C","o","m","p","u","t","i","n","g","?">>,
    \* "Tell me about Programming Basics?"
    <<"T","e","l","l"," ","m","e"," ","a","b","o","u","t"," ","P","r","o","g","r","a","m","m","i","n","g"," ","B","a","s","i","c","s","?">>
}

\* a course is added to the table after the index was built
AddCourse ==
    /\ cache_loaded
    /\ \A k \in DOMAIN store : store[k].id # AddedCourse.id
    /\ store' = Append(store, AddedCourse)
    /\ UNCHANGED <<query, pc, op, title_to_id_cache, id_to_title_cache, duplicate_titles,
                   cache_loaded, result, route, planning, course_id, alternatives, semantic,
                   previous, arguments, returned, threads,
                   vector_store_ready, startup, loop>>

\* a course of the table is given another title after the index was built
RetitleCourse ==
    /\ cache_loaded
    /\ \E k \in DOMAIN store :
         /\ store[k].id = <<"C","O","M","P"," ","2","0","2">>
         /\ store[k].title # NewTitle
         /\ store' = [store EXCEPT ![k].title = NewTitle]
    /\ UNCHANGED <<query, pc, op, title_to_id_cache, id_to_title_cache, duplicate_titles,
                   cache_loaded, result, route, planning, course_id, alternatives, semantic,
                   previous, arguments, returned, threads,
                   vector_store_ready, startup, loop>>

\* the caller asks another question on the same process
AskAnother ==
    /\ pc = "done"
    /\ Len(previous) + 1 < MaxCalls
    /\ pc' = "start"
    /\ query' \in FrameQueries
    /\ previous' = Append(previous, Answered)
    /\ UNCHANGED <<store, op, title_to_id_cache, id_to_title_cache, duplicate_titles,
                   cache_loaded, result, route, planning, course_id, alternatives, semantic,
                   arguments, returned, threads,
                   vector_store_ready, startup, loop>>

NextFrame ==
    \/ FindCourseByTitle
    \/ AddCourse
    \/ RetitleCourse
    \/ AskAnother

SpecFrame == Start({FrameRows}, FrameQueries, {None}, 0) /\ [][NextFrame]_vars

\* the index of the table the process started with
IndexAtStart ==
    load_title_cache(FrameRows, [title_to_id |-> <<>>, id_to_title |-> <<>>,
                                 duplicates |-> <<>>, loaded |-> FALSE])

\* the table holds a course under a title given after the index was built, and the
\* question asks for that title
AsksForLaterTitle ==
    \E k \in DOMAIN store :
       /\ store[k].title \in {AddedCourse.title, NewTitle}
       /\ query = <<"T","e","l","l"," ","m","e"," ","a","b","o","u","t"," ">> \o store[k].title \o <<"?">>

\* C25: once _load_title_cache has completed no later step changes the title index; a
\* course added to or retitled in the table afterwards is not found by its new title, and
\* every question is answered with the (course_id, alternatives) that the index of the
\* table at the start gives, whatever the table has become.
C25_IndexFrozenAfterLoad ==
    /\ [][cache_loaded => UNCHANGED <<title_to_id_cache, id_to_title_cache,
                                      duplicate_titles, cache_loaded>>]_vars
    /\ [](Done("find_course_by_title")
          => /\ <<course_id, alternatives>>
                  = find_course_by_title(query, IndexAtStart.title_to_id, IndexAtStart.duplicates)
             /\ AsksForLaterTitle => course_id = None)

\* the second call asks for the title of a course that was added or retitled meanwhile
C25_Witness ==
    /\ Done("find_course_by_title")
    /\ Len(previous) = 1
    /\ store # FrameRows
    /\ AsksForLaterTitle
    /\ course_id = None

\* ------------------------------------------------------------------------
\* The server: startup and the /query handler (server.py)
\* ------------------------------------------------------------------------

\* what a step of the server leaves alone
OnlyServer ==
    UNCHANGED <<store, query, pc, op, title_to_id_cache, id_to_title_cache, duplicate_titles,
                cache_loaded, result, route, planning, course_id, alternatives, semantic,
                previous, arguments, returned, loop>>

\* lifespan, chroma.sqlite3 exists: vector_store_ready.set(), then yield
LifespanStoreExists ==
    /\ startup = "import"
    /\ vector_store_ready' = TRUE
    /\ startup' = "exists"
    /\ UNCHANGED threads
    /\ OnlyServer

\* lifespan, chroma.sqlite3 is missing: the build thread is started, then yield
LifespanStartsBuild ==
    /\ startup = "import"
    /\ startup' = "building"
    /\ UNCHANGED <<vector_store_ready, threads>>
    /\ OnlyServer

\* _build_vector_store_sync: build_vector_store() returns, or it raises and the
\* exception is printed
BuildEnds ==
    /\ startup = "building"
    /\ startup' \in {"returned", "raised"}
    /\ UNCHANGED <<vector_store_ready, threads>>
    /\ OnlyServer

\* _build_vector_store_sync, finally: vector_store_ready.set()
BuildFinally ==
    /\ startup \in {"returned", "raised"}
    /\ vector_store_ready' = TRUE
    /\ startup' = "finished"
    /\ UNCHANGED threads
    /\ OnlyServer

\* request t reaches handle_query (the application serves once lifespan has yielded) and
\* starts vector_store_ready.wait(timeout=120)
StartWait(t) ==
    /\ startup # "import"
    /\ threads[t].pc = "call"
    /\ threads' = [threads EXCEPT ![t].pc = "wait"]
    /\ UNCHANGED <<vector_store_ready, startup>>
    /\ OnlyServer

\* a variant in which the wait returns true whether the event is set or not
WaitReturnsTrue_unset(t) ==
    /\ threads[t].pc = "wait"
    /\ threads' = [threads EXCEPT ![t].pc = "identify"]
    /\ UNCHANGED <<vector_store_ready, startup>>
    /\ OnlyServer

\* the wait of request t returns True: the event is set
WaitReturnsTrue(t) ==
    /\ threads[t].pc = "wait"
    /\ vector_store_ready
    /\ threads' = [threads EXCEPT ![t].pc = "identify"]
    /\ UNCHANGED <<vector_store_ready, startup>>
    /\ OnlyServer

\* the 120 s of request t are over with the event unset: the wait returns False and
\* HTTPException(status_code=503) is raised
WaitTimesOut(t) ==
    /\ threads[t].pc = "wait"
    /\ ~vector_store_ready
    /\ threads' = [threads EXCEPT ![t].pc = "503"]
    /\ UNCHANGED <<vector_store_ready, startup>>
    /\ OnlyServer

\* get_user_id_from_token and build_user_context; an exception of theirs is answered
\* with HTTP 500
IdentifyUser(t) ==
    /\ threads[t].pc = "identify"
    /\ \E next \in {"generate_answer", "500"} : threads' = [threads EXCEPT ![t].pc = next]
    /\ UNCHANGED <<vector_store_ready, startup>>
    /\ OnlyServer

\* generate_answer(body.question, ...) returns and the answer is sent, or it raises and
\* HTTP 500 is sent
GenerateAnswer(t) ==
    /\ threads[t].pc = "generate_answer"
    /\ \E next \in {"200", "500"} : threads' = [threads EXCEPT ![t].pc = next]
    /\ UNCHANGED <<vector_store_ready, startup>>
    /\ OnlyServer

NextServer ==
    \/ LifespanStoreExists
    \/ LifespanStartsBuild
    \/ BuildEnds
    \/ BuildFinally
    \/ \E t \in DOMAIN threads :
         \/ StartWait(t)
         \/ WaitReturnsTrue(t)
         \/ WaitTimesOut(t)
         \/ IdentifyUser(t)
         \/ GenerateAnswer(t)

SpecServer == Start({<<>>}, {<<>>}, {None}, MaxRequests) /\ [][NextServer]_vars

\* C26: no request is in generate_answer, or past it, while vector_store_ready is unset;
\* the event is set once startup has gone either way (the store existed, or the build
\* returned or raised); once set it stays set; a request whose wait ended with the event
\* unset is answered with 503 and never runs the query.
C26_NoAnswerBeforeReady ==
    /\ [](\A t \in DOMAIN threads :
            threads[t].pc \in {"generate_answer", "200"} => vector_store_ready)
    /\ [](startup \in {"exists", "finished"} => vector_store_ready)
    /\ [][vector_store_ready => vector_store_ready']_vars
    /\ [][\A t \in DOMAIN threads :
            /\ (threads[t].pc = "wait" /\ ~vector_store_ready /\ threads'[t].pc # "wait")
               => threads'[t].pc = "503"
            /\ threads[t].pc = "503" => threads'[t].pc = "503"]_vars

\* the build raised; one request gave up before the event was set, another was answered
C26_Witness ==
    /\ startup = "finished"
    /\ vector_store_ready
    /\ \E t, u \in DOMAIN threads : threads[t].pc = "503" /\ threads[u].pc = "200"

\* ------------------------------------------------------------------------
\* Fetching a page with retries (scraper.py)
\* ------------------------------------------------------------------------

\* the largest `retries` given to fetch_html (its default is 3)
MaxRetries == 3

\* the arguments of fetch_html: one of two pages, 0 to MaxRetries retries
FetchArguments ==
    [url : {<<"/","c","o","u","r","s","e","s","/","c","o","m","p","-","2","5","0","/">>, <<"/","c","o","u","r","s","e","s","/","m","a","t","h","-","1","3","3","/">>},
     retries : 0..MaxRetries]

\* what makes a request fail: requests.get times out or fails to connect, or
\* raise_for_status finds an error status
Failures == {"Timeout", "ConnectionError", "HTTPError"}

\* response.text of the k-th request of the call
Body(k) == <<"p","a","g","e"," ">> \o <<DigitSeq[k + 1]>>

\* the steps of fetch_html leave these alone
OnlyFetch ==
    UNCHANGED <<store, query, title_to_id_cache, id_to_title_cache, duplicate_titles,
                cache_loaded, result, route, planning, course_id, alternatives, semantic,
                arguments, threads, vector_store_ready, startup>>

\* a variant that retries after the last attempt too
Attempt_retryingLast ==
    /\ pc = "start"
    /\ loop < arguments.retries
    /\ \E outcome \in {"ok"} \cup Failures :
         /\ previous' = Append(previous, outcome)
         /\ IF outcome = "ok"
            THEN /\ returned' = [kind |-> "return", text |-> Body(Len(previous) + 1)]
                 /\ pc' = "done" /\ op' = "fetch_html" /\ loop' = loop
            ELSE /\ loop' = loop + 1
                 /\ UNCHANGED <<returned, pc, op>>
    /\ OnlyFetch

\* one pass of the loop of fetch_html: the request succeeds and its text is returned, or
\* it fails and the loop goes on, or it fails at the last attempt and the exception is
\* raised again; `previous` is the log of the requests issued
Attempt ==
    /\ pc = "start"
    /\ loop < arguments.retries
    /\ \E outcome \in {"ok"} \cup Failures :
         /\ previous' = Append(previous, outcome)
         /\ IF outcome = "ok"
            THEN /\ returned' = [kind |-> "return", text |-> Body(Len(previous) + 1)]
                 /\ pc' = "done" /\ op' = "fetch_html" /\ loop' = loop
            ELSE IF loop < arguments.retries - 1
            THEN /\ loop' = loop + 1
                 /\ UNCHANGED <<returned, pc, op>>
            ELSE /\ returned' = [kind |-> "raise", exception |-> <<outcome, Len(previous) + 1>>]
                 /\ pc' = "done" /\ op' = "fetch_html" /\ loop' = loop
    /\ OnlyFetch

\* the loop is over without a return or a raise: return ""
LoopExhausted ==
    /\ pc = "start"
    /\ loop >= arguments.retries
    /\ returned' = [kind |-> "return", text |-> <<>>]
    /\ pc' = "done" /\ op' = "fetch_html"
    /\ UNCHANGED <<previous, loop>>
    /\ OnlyFetch

NextFetch == Attempt \/ LoopExhausted

SpecFetch == Start({<<>>}, {<<>>}, FetchArguments, 0) /\ [][NextFetch]_vars

RecommendationDetected ==
    /\ pc = "done"
    /\ op \in {"hybrid_search", "detect_planning_query"}
    /\ planning # None
    /\ planning[1].type = "recommendation"

\* C29: whenever detect_planning_query returns type recommendation its level is empty
\* (None or 0), so hybrid_search never serves a recommendation through
\* get_courses_by_level: what the planning branch returns for it is the entry-level list
\* of the detected department.
C29_RecommendationHasNoLevel ==
    RecommendationDetected
    => /\ ~LevelIsSet(planning[1].level)
       /\ (op = "hybrid_search" /\ route = "planning")
          => /\ planning[1].department # None
             /\ result = StructuralList(get_entry_level_courses(store, planning[1].department,
                                                                planning[1].term, 12))

\* a recommendation answered by the planning branch
C29_Witness ==
    /\ RecommendationDetected
    /\ op = "hybrid_search"
    /\ route = "planning"
    /\ result # <<>>

\* ------------------------------------------------------------------------
\* Loading the catalogue: main of load_all_courses.py
\* ------------------------------------------------------------------------

\* the steps of main leave these alone
OnlyLoad ==
    UNCHANGED <<query, title_to_id_cache, id_to_title_cache, duplicate_titles,
                cache_loaded, result, route, planning, course_id, alternatives, semantic,
                arguments, returned, threads, vector_store_ready, startup>>

\* the link the loop of main is at
CurrentLink == arguments[loop + 1]

\* existing_course of main is found
ExistingCourse ==
    /\ LinkCourseId(CurrentLink) # None
    /\ HasCourse(store, LinkCourseId(CurrentLink)[1])

\* one pass of the loop: the course of the link is in the table already, the link is
\* skipped; `previous` is the log of what happened to each link
SkipExisting ==
    /\ pc = "start"
    /\ loop < Len(arguments)
    /\ ExistingCourse
    /\ previous' = Append(previous, "skipped")
    /\ loop' = loop + 1
    /\ UNCHANGED <<store, pc, op>>
    /\ OnlyLoad

\* one pass of the loop: the page is fetched, parsed and saved
SaveLink ==
    /\ pc = "start"
    /\ loop < Len(arguments)
    /\ ~ExistingCourse
    /\ store' = save_course(store, parse_course_page(PageOf(CurrentLink)))
    /\ previous' = Append(previous, "saved")
    /\ loop' = loop + 1
    /\ UNCHANGED <<pc, op>>
    /\ OnlyLoad

\* one pass of the loop: fetch_html raises, the error is printed and the loop goes on
LinkFails ==
    /\ pc = "start"
    /\ loop < Len(arguments)
    /\ ~ExistingCourse
    /\ previous' = Append(previous, "error")
    /\ loop' = loop + 1
    /\ UNCHANGED <<store, pc, op>>
    /\ OnlyLoad

\* the loop is over
MainReturns ==
    /\ pc = "start"
    /\ loop = Len(arguments)
    /\ pc' = "done" /\ op' = "main"
    /\ UNCHANGED <<store, previous, loop>>
    /\ OnlyLoad

NextLoad == SkipExisting \/ SaveLink \/ LinkFails \/ MainReturns

SpecLoad == Start({<<>>}, {<<>>}, LinkLists, 0) /\ [][NextLoad]_vars

\* the row of the table with the id of the page of a link is the scraped course
StoredAsScraped(url) ==
    LET course_data == parse_course_page(PageOf(url))
    IN  \E k \in DOMAIN store :
            /\ store[k].id = course_data.id
            /\ store[k].title = course_data.title
            /\ store[k].title # PlaceholderTitle(course_data.id)
            /\ store[k].description = course_data.description
            /\ store[k].credits = course_data.credits

\* C30: after main has gone through a list of links, from an empty table and with no
\* fetch failing, every course whose page is in the list is stored with its scraped title
\* and data, whatever the order of the links; none is left as the "Placeholder for <id>"
\* row made when it was first seen as a prerequisite.
C30_NoLinkedCourseLeftAsPlaceholder ==
    (Done("main") /\ \A k \in DOMAIN previous : previous[k] # "error")
    => \A k \in DOMAIN arguments : StoredAsScraped(arguments[k])

====
